---- MODULE Spec2Model ----
(***************************************************************************)
(* A model of parts of the Onramp C compiler (cci) front end:               *)
(*   - record.c        struct/union layout and member lookup                *)
(*   - parse_expr.c    number literals, string labels, conversions, calls   *)
(*   - parse_decl.c    file-scope variable redeclaration                    *)
(*   - lexer.c         token stream with one-token push-back                *)
(* Each component has its own specification (SpecRecord, SpecNumber, ...)   *)
(* over its own group of variables; the other groups stay at their idle     *)
(* value.  A fatal() call aborts the compiler: it is modelled by setting    *)
(* the variable fatal to the message, after which no action is enabled.     *)
(***************************************************************************)
EXTENDS Integers, Sequences, FiniteSets, TLC

VARIABLES
    fatal,          \* "" while running, else the message of the fatal() call
    records,        \* record.c: every record_t created so far
    record_stack,   \* parse_decl.c: records whose member list is being parsed
    calls,          \* number of record_new and record_add calls made (bounds the run)
    number_token,   \* parse_number: the characters of the number token
    number_garbage, \* parse_number: what the uninitialized was_separator holds
    number_node,    \* parse_number: the node returned, NoNode before the call
    next_string,    \* parse_expr.c: the counter of string-literal labels
    current_function, \* the function being parsed, NullFunction at file scope
    string_labels,  \* the label indices taken so far, in order, and who took each
    string_node,    \* string_label of the latest string node, -1 before any
    conv_operands,  \* the types of the two operands given to the conversions
    conv_left,      \* the type of the left operand node
    conv_right,     \* the type of the right operand node
    conv_done,      \* whether parse_usual_arithmetic_conversions has run
    call_type,      \* parse_function_call: the type of the callee
    call_args,      \* how each argument appended to the call node was converted
    call_state,     \* "open" after the parenthesis, "args" in the loop, "call" once returned
    decl_symbol,    \* the symbol of the name in the file scope, NoSymbol if none
    decl_last,      \* the latest declaration of the name that was parsed
    decl_count,     \* the number of declarations of the name parsed
    decl_emitted,   \* the number of generate_static_variable calls for the name
    decl_file_scope, \* a declaration of the name at file scope has been accepted
    decl_access,    \* the name has been used in an expression and resolved
    lexer_input,    \* the characters of the input file
    lexer_pos,      \* the number of characters read from the file
    lexer_char,     \* lexer.c: the character read last, not in a token yet
    current_line,   \* the line number
    lexer_filename, \* lexer.c: the file name given to tokens
    lexer_buffer,   \* lexer.c: the characters accumulated for a token
    lexer_token,    \* lexer.c: the current token, NullToken before lexer_init
    queued_token,   \* lexer.c: the token pushed back, NullToken if none
    lexer_taken,    \* the token that was current before the latest lexer_consume
    lexer_scanned,  \* the number of tokens, the end token apart, read from the input
    lexer_ends,     \* the number of end tokens read from the input, up to MaxEnds
    lexer_ops,      \* the latest two lexer operations, the latest first
    cond_operands,  \* parse_conditional_expression: the second and third operand as parsed
    cond_left,      \* the second operand after the conversions
    cond_right,     \* the third operand after the conversions
    cond_result,    \* the type of the conditional, NoType before it is built
    gen_node,       \* generate_ops.c: the node that is generated
    gen_register,   \* register_num: the register the node is generated in
    gen_block,      \* current_block: the instructions added so far
    gen_done,       \* whether the node has been generated
    opc_call,       \* cci/1-opc compile.c: the function called and its arguments
    opc_emitted,    \* the assembly emitted so far
    opc_register,   \* the content of the register that compile_cast converts
    opc_done,       \* whether the call has returned
    spec_tokens,    \* parse_decl.c: the token stream given to try_parse_declaration
    spec_parent,    \* whether parent is not null: block scope
    spec_pos,       \* the number of tokens consumed
    spec_returned,  \* "true" or "false" once try_parse_declaration has returned
    spec_base,      \* the base of the type that specifiers_make_type made
    spec_warnings,  \* the number of implicit int warnings
    spec_names,     \* the names declared
    globals,        \* cci/1-opc global.c: the buckets of the table of globals
    globals_count,  \* the number of globals in the table
    global_call,    \* the declaration given to the last call
    global_previous,\* the global of that name before the last call
    global_returned,\* the global that the last call returned
    global_calls,   \* the number of declarations so far
    emit_str,       \* cci/1-opc emit.c: the string given to emit_string_literal
    emit_enabled,   \* emit_enabled: the output is written
    emit_output,    \* the characters written to output_file
    emit_done,      \* emit_string_literal has returned
    exit_calls,     \* libc/3-full atexit.c: the list exit_calls, the head first
    exit_body,      \* what each function does when it is called
    exit_phase,     \* main, exit, exited or stack overflow
    exit_call,      \* exit: the rest of the list from call on
    exit_status,    \* exit: the status of the innermost call of exit
    exit_first,     \* the status of the first call of exit
    exit_final,     \* the status given to _Exit
    exit_depth,     \* the number of nested calls of exit
    exit_invoked,   \* how often each function has been called by exit
    exit_order,     \* the functions that exit has called, in order
    exit_registered, \* the functions given to atexit before exit, in order
    types_table,    \* cci/1-opc types.c: types_names, types_tags and types_objects
    types_calls,    \* the number of calls so far
    types_looping,  \* the loop of types_find_bucket does not end
    types_returned, \* the object that the last call returned
    types_key,      \* the name and the tag of the last call
    cmp_stage,      \* comparisons: full (cci/2-full) or opc (cci/1-opc)
    cmp_kind,       \* the kind of the comparison node
    cmp_type,       \* the type of the two operands
    cmp_register,   \* register_num of the full stage
    cmp_left,       \* the word of the left operand
    cmp_right,      \* the word of the right operand
    cmp_node,       \* the node that the parser has made
    cmp_block,      \* the block generated or the terms emitted
    cmp_trace,      \* the result register after each instruction
    cmp_done        \* the comparison has been generated and run

recordVars == <<records, record_stack, calls>>
numberVars == <<number_token, number_garbage, number_node>>
stringVars == <<next_string, current_function, string_labels, string_node>>
convVars == <<conv_operands, conv_left, conv_right, conv_done>>
callVars == <<call_type, call_args, call_state>>
declVars == <<decl_symbol, decl_last, decl_count, decl_emitted, decl_file_scope, decl_access>>
lexerVars == <<lexer_input, lexer_pos, lexer_char, current_line, lexer_filename, lexer_buffer, lexer_token, queued_token, lexer_taken, lexer_scanned, lexer_ends, lexer_ops>>
condVars == <<cond_operands, cond_left, cond_right, cond_result>>
genVars == <<gen_node, gen_register, gen_block, gen_done>>
opcVars == <<opc_call, opc_emitted, opc_register, opc_done>>
specifiersVars == <<spec_tokens, spec_parent, spec_pos, spec_returned, spec_base, spec_warnings, spec_names>>
globalsVars == <<globals, globals_count, global_call, global_previous, global_returned, global_calls>>
emitVars == <<emit_str, emit_enabled, emit_output, emit_done>>
exitVars == <<exit_calls, exit_body, exit_phase, exit_call, exit_status, exit_first, exit_final, exit_depth, exit_invoked, exit_order, exit_registered>>
typesVars == <<types_table, types_calls, types_looping, types_returned, types_key>>
cmpVars == <<cmp_stage, cmp_kind, cmp_type, cmp_register, cmp_left, cmp_right, cmp_node, cmp_block, cmp_trace, cmp_done>>

vars == <<fatal, recordVars, numberVars, stringVars, convVars, callVars, declVars, lexerVars, condVars, genVars, opcVars, specifiersVars, globalsVars, emitVars, exitVars, typesVars, cmpVars>>

notRecordVars == <<numberVars, stringVars, convVars, callVars, declVars, lexerVars, condVars, genVars, opcVars, specifiersVars, globalsVars, emitVars, exitVars, typesVars, cmpVars>>
notNumberVars == <<recordVars, stringVars, convVars, callVars, declVars, lexerVars, condVars, genVars, opcVars, specifiersVars, globalsVars, emitVars, exitVars, typesVars, cmpVars>>
notStringVars == <<recordVars, numberVars, convVars, callVars, declVars, lexerVars, condVars, genVars, opcVars, specifiersVars, globalsVars, emitVars, exitVars, typesVars, cmpVars>>
notConvVars == <<recordVars, numberVars, stringVars, callVars, declVars, lexerVars, condVars, genVars, opcVars, specifiersVars, globalsVars, emitVars, exitVars, typesVars, cmpVars>>
notCallVars == <<recordVars, numberVars, stringVars, convVars, declVars, lexerVars, condVars, genVars, opcVars, specifiersVars, globalsVars, emitVars, exitVars, typesVars, cmpVars>>
notDeclVars == <<recordVars, numberVars, stringVars, convVars, callVars, lexerVars, condVars, genVars, opcVars, specifiersVars, globalsVars, emitVars, exitVars, typesVars, cmpVars>>
notLexerVars == <<recordVars, numberVars, stringVars, convVars, callVars, declVars, condVars, genVars, opcVars, specifiersVars, globalsVars, emitVars, exitVars, typesVars, cmpVars>>
notCondVars == <<recordVars, numberVars, stringVars, convVars, callVars, declVars, lexerVars, genVars, opcVars, specifiersVars, globalsVars, emitVars, exitVars, typesVars, cmpVars>>
notGenVars == <<recordVars, numberVars, stringVars, convVars, callVars, declVars, lexerVars, condVars, opcVars, specifiersVars, globalsVars, emitVars, exitVars, typesVars, cmpVars>>
notOpcVars == <<recordVars, numberVars, stringVars, convVars, callVars, declVars, lexerVars, condVars, genVars, specifiersVars, globalsVars, emitVars, exitVars, typesVars, cmpVars>>
notSpecifiersVars == <<recordVars, numberVars, stringVars, convVars, callVars, declVars, lexerVars, condVars, genVars, opcVars, globalsVars, emitVars, exitVars, typesVars, cmpVars>>
notGlobalsVars == <<recordVars, numberVars, stringVars, convVars, callVars, declVars, lexerVars, condVars, genVars, opcVars, specifiersVars, emitVars, exitVars, typesVars, cmpVars>>
notEmitVars == <<recordVars, numberVars, stringVars, convVars, callVars, declVars, lexerVars, condVars, genVars, opcVars, specifiersVars, globalsVars, exitVars, typesVars, cmpVars>>
notExitVars == <<recordVars, numberVars, stringVars, convVars, callVars, declVars, lexerVars, condVars, genVars, opcVars, specifiersVars, globalsVars, emitVars, typesVars, cmpVars>>
notTypesVars == <<recordVars, numberVars, stringVars, convVars, callVars, declVars, lexerVars, condVars, genVars, opcVars, specifiersVars, globalsVars, emitVars, exitVars, cmpVars>>
notCmpVars == <<recordVars, numberVars, stringVars, convVars, callVars, declVars, lexerVars, condVars, genVars, opcVars, specifiersVars, globalsVars, emitVars, exitVars, typesVars>>

\* The value of number_node while parse_number has not returned a node.
NoNode == [kind |-> "none", type |-> "", value |-> <<0, 0, 0, 0>>]

\* The variables of a component that a specification does not exercise.
IdleNumberVars ==
    /\ number_token = <<>>
    /\ number_garbage = FALSE
    /\ number_node = NoNode

\* current_function == NULL, at file scope.
NullFunction == [is_null |-> TRUE, name_label |-> -1]

IdleStringVars ==
    /\ next_string = 0
    /\ current_function = NullFunction
    /\ string_labels = <<>>
    /\ string_node = -1

IdleConvVars ==
    /\ conv_operands = <<>>
    /\ conv_left = <<>>
    /\ conv_right = <<>>
    /\ conv_done = FALSE

IdleCallVars ==
    /\ call_type = [is_function |-> FALSE, count |-> 0, is_variadic |-> FALSE]
    /\ call_args = <<>>
    /\ call_state = "idle"

\* scope_find_symbol returning NULL: the scope has no symbol of the name.
NoSymbol ==
    [exists |-> FALSE, id |-> 0,
     type |-> [declarator |-> "none", base |-> "signed_int", count |-> 0, record |-> 0],
     linkage |-> "none", is_tentative |-> FALSE, is_defined |-> FALSE, is_hidden |-> FALSE]

\* The value of decl_last before any declaration.
NoDeclaration ==
    [local |-> FALSE, storage |-> "none",
     type |-> [declarator |-> "none", base |-> "signed_int", count |-> 0, record |-> 0],
     has_initializer |-> FALSE]

IdleDeclVars ==
    /\ decl_symbol = NoSymbol
    /\ decl_last = NoDeclaration
    /\ decl_count = 0
    /\ decl_emitted = 0
    /\ decl_file_scope = FALSE
    /\ decl_access = FALSE

\* lexer_token and queued_token while they are NULL.
NullToken == [type |-> "null", value |-> <<>>, filename |-> <<>>, line |-> 0]

IdleLexerVars ==
    /\ lexer_input = <<>>
    /\ lexer_pos = 0
    /\ lexer_char = ""
    /\ current_line = 0
    /\ lexer_filename = <<>>
    /\ lexer_buffer = <<>>
    /\ lexer_token = NullToken
    /\ queued_token = NullToken
    /\ lexer_taken = NullToken
    /\ lexer_scanned = 0
    /\ lexer_ends = 0
    /\ lexer_ops = <<>>

\* No type: the conditional has not been built.
NoType == [declarator |-> "none", base |-> "none", qualifiers |-> {}, ref_qualifiers |-> {}]

IdleCondVars ==
    /\ cond_operands = <<>>
    /\ cond_left = NoNode
    /\ cond_right = NoNode
    /\ cond_result = NoType

IdleGenVars ==
    /\ gen_node = NoNode
    /\ gen_register = 128
    /\ gen_block = <<>>
    /\ gen_done = FALSE

IdleOpcVars ==
    /\ opc_call = NoNode
    /\ opc_emitted = <<>>
    /\ opc_register = 0
    /\ opc_done = FALSE

IdleSpecifiersVars ==
    /\ spec_tokens = <<>>
    /\ spec_parent = FALSE
    /\ spec_pos = 0
    /\ spec_returned = "none"
    /\ spec_base = ""
    /\ spec_warnings = 0
    /\ spec_names = <<>>

IdleGlobalsVars ==
    /\ globals = <<>>
    /\ globals_count = 0
    /\ global_call = NoNode
    /\ global_previous = NoNode
    /\ global_returned = NoNode
    /\ global_calls = 0

IdleEmitVars ==
    /\ emit_str = <<>>
    /\ emit_enabled = FALSE
    /\ emit_output = <<>>
    /\ emit_done = FALSE

IdleExitVars ==
    /\ exit_calls = <<>>
    /\ exit_body = <<>>
    /\ exit_phase = ""
    /\ exit_call = <<>>
    /\ exit_status = -1
    /\ exit_first = -1
    /\ exit_final = -1
    /\ exit_depth = 0
    /\ exit_invoked = <<>>
    /\ exit_order = <<>>
    /\ exit_registered = <<>>

IdleTypesVars ==
    /\ types_table = <<>>
    /\ types_calls = 0
    /\ types_looping = FALSE
    /\ types_returned = ""
    /\ types_key = <<>>

IdleCmpVars ==
    /\ cmp_stage = ""
    /\ cmp_kind = ""
    /\ cmp_type = NoNode
    /\ cmp_register = 0
    /\ cmp_left = 0
    /\ cmp_right = 0
    /\ cmp_node = NoNode
    /\ cmp_block = <<>>
    /\ cmp_trace = <<>>
    /\ cmp_done = FALSE

\* The null token / null pointer for a member name.
NoToken == ""

Min(S) == CHOOSE x \in S : \A y \in S : x <= y

RECURSIVE BitAnd(_, _)
\* Bitwise AND of two naturals (the C operator &).
BitAnd(x, y) ==
    IF x = 0 \/ y = 0 THEN 0
    ELSE (x % 2) * (y % 2) + 2 * BitAnd(x \div 2, y \div 2)

\* x & ~m for naturals: the bits of x that are not in m.
BitAndNot(x, m) == x - BitAnd(x, m)

(***************************************************************************)
(* record.c                                                                 *)
(***************************************************************************)

\* Bound of the record model: the number of record_new and record_add calls.
MaxCalls == 6

MemberNames == {"a", "b"}

\* Types that members are declared with.  A record type names a record by
\* its index in records.
TypeInt == [declarator |-> "none", base |-> "signed_int", count |-> 0, record |-> 0]
TypeCharArray == [declarator |-> "array", base |-> "char", count |-> 5, record |-> 0]
TypeIntFlexible == [declarator |-> "indeterminate", base |-> "signed_int", count |-> 0, record |-> 0]
TypeCharZero == [declarator |-> "array", base |-> "char", count |-> 0, record |-> 0]
TypeRecord(i) == [declarator |-> "none", base |-> "record", count |-> 0, record |-> i]

LeafTypes == {TypeInt, TypeCharArray, TypeIntFlexible, TypeCharZero}

base_size(type, recs) ==
    CASE type.base \in {"bool", "char", "signed_char", "unsigned_char"} -> 1
      [] type.base \in {"signed_short", "unsigned_short"} -> 2
      [] type.base \in {"signed_int", "unsigned_int", "enum", "float"} -> 4
      [] type.base \in {"signed_long", "unsigned_long"} -> 4
      [] type.base \in {"signed_long_long", "unsigned_long_long"} -> 8
      [] type.base \in {"double", "long_double"} -> 8
      [] type.base = "record" -> recs[type.record].size

\* type_size: the size of an array is its count times its element size; an
\* array of indeterminate length has no size (record_add never asks).
type_size(type, recs) ==
    CASE type.declarator = "none" -> base_size(type, recs)
      [] type.declarator = "array" -> type.count * base_size(type, recs)
      [] type.declarator = "indeterminate" -> 0

\* type_alignment: a base type is aligned to its size, a record to its
\* alignment, an array to its element.
type_alignment(type, recs) ==
    IF type.base = "record" THEN recs[type.record].alignment
    ELSE base_size(type, recs)

\* type_is_flexible_array: an array of indeterminate or zero length.
type_is_flexible_array(type) ==
    \/ type.declarator = "indeterminate"
    \/ type.declarator = "array" /\ type.count = 0

\* record_new: calloc'd, so alignment and size start at 0.
record_new(is_struct) ==
    [is_struct |-> is_struct, is_defined |-> FALSE, alignment |-> 0, size |-> 0,
     member_list |-> <<>>, member_map |-> <<>>]

member_new(name, type, offset) == [name |-> name, type |-> type, offset |-> offset]

NotFound == [found |-> FALSE, type |-> TypeInt, offset |-> 0]

\* record_find: the first element of the member map with this name.
record_find(record, name) ==
    LET hits == {i \in 1..Len(record.member_map) :
                    record.member_map[i].member.name = name}
    IN  IF hits = {} THEN NotFound
        ELSE [found |-> TRUE,
              type |-> record.member_map[Min(hits)].member.type,
              offset |-> record.member_map[Min(hits)].offset]

\* record_add_to_table: fatal on a duplicate name, else a new element.
\* The result is [ok, record]; ok = FALSE is the fatal_token call.
record_add_to_table(record, member, offset) ==
    IF record_find(record, member.name).found
    THEN [ok |-> FALSE, record |-> record]
    ELSE [ok |-> TRUE,
          record |-> [record EXCEPT !.member_map =
                        Append(@, [member |-> member, offset |-> offset])]]

RECURSIVE add_elements(_, _, _, _)
\* The loop of record_add_anonymous_to_table over the child's elements
\* from index i on.
add_elements(record, elements, i, offset) ==
    IF i > Len(elements) THEN [ok |-> TRUE, record |-> record]
    ELSE LET r == record_add_to_table(record, elements[i].member,
                                      offset + elements[i].offset)
         IN  IF r.ok THEN add_elements(r.record, elements, i + 1, offset)
             ELSE r

\* A variant that forgets to add the anonymous member's own offset.
record_add_anonymous_to_table_child_offset(record, member, offset, recs) ==
    add_elements(record, recs[member.type.record].member_map, 1, 0)

\* record_add_anonymous_to_table: every element of the child's member map is
\* added to this record at offset + element->offset.
record_add_anonymous_to_table(record, member, offset, recs) ==
    add_elements(record, recs[member.type.record].member_map, 1, offset)

last_member(record) == record.member_list[Len(record.member_list)]

\* A variant that checks only the new member, not the previous one.
record_add_check_new_only(record, type) ==
    IF type_is_flexible_array(type) /\ ~record.is_struct
    THEN "Unions cannot contain flexible array members."
    ELSE ""

\* record_add, lines 149-156: the flexible array checks.  "" when they pass.
record_add_check(record, type) ==
    IF /\ record.member_list # <<>>
       /\ type_is_flexible_array(last_member(record).type)
    THEN "Only the last member in a struct is allowed to be an array of zero/indeterminate length."
    ELSE IF type_is_flexible_array(type) /\ ~record.is_struct
    THEN "Unions cannot contain flexible array members."
    ELSE ""

\* record_add, lines 166-169: the record's alignment after this member.
record_add_alignment(record, type, recs) ==
    IF record.alignment < type_alignment(type, recs)
    THEN type_alignment(type, recs)
    ELSE record.alignment

\* record_add, lines 158-172: the offset of the new member.
record_add_offset(record, type, recs) ==
    LET offset == IF record.is_struct /\ record.member_list # <<>>
                  THEN last_member(record).offset
                       + type_size(last_member(record).type, recs)
                  ELSE 0
        alignment == type_alignment(type, recs)
    IN  BitAndNot(offset + alignment - 1, alignment - 1)

\* record_add, lines 186-193: the record's size after this member.
record_add_size(record, type, offset, alignment, recs) ==
    LET extent == IF type_is_flexible_array(type) THEN 0 ELSE type_size(type, recs)
        end == BitAndNot(offset + extent + alignment - 1, alignment - 1)
    IN  IF end > record.size THEN end ELSE record.size

\* record_add as a function of the record: [msg, record]; msg # "" is fatal.
record_add(record, token, type, recs) ==
    IF record_add_check(record, type) # ""
    THEN [msg |-> record_add_check(record, type), record |-> record]
    ELSE
    LET offset == record_add_offset(record, type, recs)
        alignment == record_add_alignment(record, type, recs)
        member == member_new(token, type, offset)
        listed == [record EXCEPT !.alignment = alignment,
                                 !.member_list = Append(@, member)]
        tabled == IF token # NoToken
                  THEN record_add_to_table(listed, member, offset)
                  ELSE record_add_anonymous_to_table(listed, member, member.offset, recs)
    IN  IF ~tabled.ok
        THEN [msg |-> "struct/field member defined with the same name as a previous member.",
              record |-> record]
        ELSE [msg |-> "",
              record |-> [tabled.record EXCEPT !.size =
                            record_add_size(record, type, offset, alignment, recs)]]

InitRecordVars ==
    /\ records = <<>>
    /\ record_stack = <<>>
    /\ calls = 0

InitRecord ==
    /\ fatal = ""
    /\ InitRecordVars
    /\ IdleNumberVars
    /\ IdleStringVars
    /\ IdleConvVars
    /\ IdleCallVars
    /\ IdleDeclVars
    /\ IdleLexerVars
    /\ IdleCondVars
    /\ IdleGenVars
    /\ IdleOpcVars
    /\ IdleSpecifiersVars
    /\ IdleGlobalsVars
    /\ IdleEmitVars
    /\ IdleExitVars
    /\ IdleTypesVars
    /\ IdleCmpVars

Top == record_stack[Len(record_stack)]

\* Records whose definition is complete: the types a member can have.
ClosedRecords == {i \in 1..Len(records) : \A k \in 1..Len(record_stack) : record_stack[k] # i}

\* parse_record (parse_decl.c), `struct|union {`: a new record is created,
\* marked defined, and its member list is parsed next.
ParseRecordOpen ==
    /\ fatal = ""
    /\ calls < MaxCalls
    /\ \E is_struct \in BOOLEAN :
          records' = Append(records, [record_new(is_struct) EXCEPT !.is_defined = TRUE])
    /\ record_stack' = Append(record_stack, Len(records) + 1)
    /\ calls' = calls + 1
    /\ UNCHANGED <<fatal, notRecordVars>>

\* parse_record_member calls record_add for a named member of any complete
\* type, or an unnamed member of record type.
RecordAdd ==
    /\ fatal = ""
    /\ record_stack # <<>>
    /\ calls < MaxCalls
    /\ \E token \in MemberNames \cup {NoToken},
          type \in LeafTypes \cup {TypeRecord(i) : i \in ClosedRecords} :
          /\ token = NoToken => type.base = "record" /\ type.declarator = "none"
          /\ LET r == record_add(records[Top], token, type, records)
             IN  /\ fatal' = r.msg
                 /\ records' = [records EXCEPT ![Top] = r.record]
    /\ calls' = calls + 1
    /\ UNCHANGED <<record_stack, notRecordVars>>

\* parse_record, `}`: an empty record is fatal; else the definition is done.
ParseRecordClose ==
    /\ fatal = ""
    /\ record_stack # <<>>
    /\ IF records[Top].member_list = <<>>
       THEN /\ fatal' = "TODO empty struct not yet supported, GNU extension"
            /\ UNCHANGED record_stack
       ELSE /\ record_stack' = SubSeq(record_stack, 1, Len(record_stack) - 1)
            /\ UNCHANGED fatal
    /\ UNCHANGED <<records, calls, notRecordVars>>

NextRecord ==
    \/ ParseRecordOpen
    \/ RecordAdd
    \/ ParseRecordClose

SpecRecord == InitRecord /\ [][NextRecord]_vars

RecordIds == 1..Len(records)

\* C1: after any sequence of record_add calls the size of a record (struct or
\* union) is a multiple of its alignment.
C1_SizeMultipleOfAlignment ==
    \A i \in RecordIds :
        records[i].member_list # <<>> => records[i].size % records[i].alignment = 0

C3_FlexibleArray ==
    \A i \in RecordIds :
        LET list == records[i].member_list
        IN  /\ \A k \in 1..Len(list) :
                  type_is_flexible_array(list[k].type)
                      => k = Len(list) /\ records[i].is_struct
            /\ (list # <<>> /\ type_is_flexible_array(last_member(records[i]).type))
                  => records[i].size
                       = BitAndNot(last_member(records[i]).offset + records[i].alignment - 1,
                                   records[i].alignment - 1)

\* A struct accepted with a flexible array after another member, its size the
\* end of that other member, on which a further record_add was fatal.
C3_Witness ==
    /\ fatal = "Only the last member in a struct is allowed to be an array of zero/indeterminate length."
    /\ records[Top].is_struct
    /\ Len(records[Top].member_list) = 2
    /\ type_is_flexible_array(last_member(records[Top]).type)
    /\ records[Top].size = last_member(records[Top]).offset
    /\ records[Top].size > 0

(***************************************************************************)
(* parse_expr.c: parse_number and parse_number_type                         *)
(*                                                                          *)
(* A u64_t is a sequence of four 16-bit limbs, least significant first, so  *)
(* that 64-bit arithmetic wraps exactly as llong_mul_u and llong_add_u do.  *)
(***************************************************************************)

\* Bound of the number model: digits appended to each seed literal.
MaxTail == 1

LimbBase == 2^16
U64Limbs == 1..4

RECURSIVE limbs_mul_add(_, _, _, _)
\* v * u + carry over the limbs from i on; the carry out of the last limb is
\* dropped (arithmetic modulo 2^(16 * Len(v))).
limbs_mul_add(v, u, i, carry) ==
    IF i > Len(v) THEN <<>>
    ELSE LET t == v[i] * u + carry
         IN  <<t % LimbBase>> \o limbs_mul_add(v, u, i + 1, t \div LimbBase)

RECURSIVE limbs_ltu(_, _, _)
limbs_ltu(a, b, i) ==
    IF i = 0 THEN FALSE
    ELSE IF a[i] # b[i] THEN a[i] < b[i]
    ELSE limbs_ltu(a, b, i - 1)

llong_clear == [i \in U64Limbs |-> 0]
llong_mul_u(v, u) == limbs_mul_add(v, u, 1, 0)
llong_add_u(v, u) == limbs_mul_add(v, 1, 1, u)
llong_ltu(a, b) == limbs_ltu(a, b, Len(a))
llong_geu(a, b) == ~llong_ltu(a, b)
\* llong_set_u(&ref, 1); llong_shl(&ref, k)
llong_one_shl(k) == [i \in U64Limbs |-> IF i = (k \div 16) + 1 THEN 2^(k % 16) ELSE 0]
\* u64_low: the low 32 bits.
u64_low(v) == [i \in U64Limbs |-> IF i <= 2 THEN v[i] ELSE 0]

\* The terminating zero byte of a C string.
NUL == ""

CharAt(token, p) == IF p <= Len(token) THEN token[p] ELSE NUL

DecimalChars == <<"0", "1", "2", "3", "4", "5", "6", "7", "8", "9">>
LowerHexChars == <<"a", "b", "c", "d", "e", "f">>
UpperHexChars == <<"A", "B", "C", "D", "E", "F">>

IndexOf(chars, c) == Min({i \in 1..Len(chars) : chars[i] = c})
Has(chars, c) == \E i \in 1..Len(chars) : chars[i] = c

\* parse_number, lines 195-204: the value of a digit character, 99 if none.
digit_of(c) ==
    IF Has(UpperHexChars, c) THEN IndexOf(UpperHexChars, c) - 1 + 10
    ELSE IF Has(LowerHexChars, c) THEN IndexOf(LowerHexChars, c) - 1 + 10
    ELSE IF Has(DecimalChars, c) THEN IndexOf(DecimalChars, c) - 1
    ELSE 99

\* parse_number, lines 139-173: the base and the position of the first digit.
number_prefix(token) ==
    IF CharAt(token, 1) = "0" /\ CharAt(token, 2) \in {"x", "X"}
    THEN [base |-> 16, p |-> 3]
    ELSE IF CharAt(token, 1) = "0" /\ CharAt(token, 2) \in {"b", "B"}
    THEN [base |-> 2, p |-> 3]
    ELSE IF CharAt(token, 1) = "0"
    THEN [base |-> 8, p |-> 1]
    ELSE [base |-> 10, p |-> 1]

\* parse_number, lines 210-220: whether adding the digit is taken to overflow.
digit_overflows(value, base, digit) ==
    \/ llong_ltu(llong_mul_u(value, base), value)
    \/ llong_ltu(llong_add_u(llong_mul_u(value, base), digit), value)

RECURSIVE number_digits(_, _, _, _, _)
\* parse_number, lines 186-224: the digit loop from position p on.
number_digits(token, p, base, value, was_separator) ==
    IF CharAt(token, p) = "'"
    THEN number_digits(token, p + 1, base, value, TRUE)
    ELSE IF digit_of(CharAt(token, p)) >= base
    THEN [out_of_range |-> FALSE, p |-> p, value |-> value,
          was_separator |-> was_separator]
    ELSE IF digit_overflows(value, base, digit_of(CharAt(token, p)))
    THEN [out_of_range |-> TRUE, p |-> p, value |-> value,
          was_separator |-> FALSE]
    ELSE number_digits(token, p + 1, base,
                       llong_add_u(llong_mul_u(value, base), digit_of(CharAt(token, p))),
                       FALSE)

RECURSIVE number_suffix(_, _, _, _, _)
\* parse_number, lines 232-269: the suffix loop from position p on (the
\* messages are written without the grave accents of the source).
number_suffix(token, p, suffix_unsigned, suffix_long, suffix_long_long) ==
    LET c == CharAt(token, p)
    IN  IF c = NUL
        THEN [msg |-> "", suffix_unsigned |-> suffix_unsigned,
              suffix_long |-> suffix_long, suffix_long_long |-> suffix_long_long]
        ELSE IF c \in {"l", "L"}
        THEN IF suffix_long_long
             THEN [msg |-> "long long long integer suffix is not supported.",
                   suffix_unsigned |-> suffix_unsigned,
                   suffix_long |-> suffix_long, suffix_long_long |-> suffix_long_long]
             ELSE IF suffix_long
             THEN number_suffix(token, p + 1, suffix_unsigned, FALSE, TRUE)
             ELSE number_suffix(token, p + 1, suffix_unsigned, TRUE, FALSE)
        ELSE IF c \in {"u", "U"}
        THEN IF suffix_unsigned
             THEN [msg |-> "Redundant u suffix on integer literal.",
                   suffix_unsigned |-> suffix_unsigned,
                   suffix_long |-> suffix_long, suffix_long_long |-> suffix_long_long]
             ELSE number_suffix(token, p + 1, TRUE, suffix_long, suffix_long_long)
        ELSE [msg |-> IF c \in {".", "e", "E", "p", "P"}
                      THEN "TODO floating point literals are not yet supported"
                      ELSE "Malformed number literal.",
              suffix_unsigned |-> suffix_unsigned,
              suffix_long |-> suffix_long, suffix_long_long |-> suffix_long_long]

\* parse_number_type without the test for a base-10 number above INT32_MAX.
parse_number_type_no_decimal_test(number, base, suffix_unsigned, suffix_long, suffix_long_long) ==
    IF suffix_unsigned /\ suffix_long_long THEN "unsigned_long_long"
    ELSE IF llong_geu(number, llong_one_shl(63)) THEN "unsigned_long_long"
    ELSE IF suffix_long_long THEN "signed_long_long"
    ELSE IF llong_geu(number, llong_one_shl(32))
    THEN (IF suffix_unsigned THEN "unsigned_long_long" ELSE "signed_long_long")
    ELSE IF suffix_unsigned /\ suffix_long THEN "unsigned_long"
    ELSE IF base # 10 /\ llong_geu(number, llong_one_shl(31))
    THEN (IF suffix_long THEN "unsigned_long" ELSE "unsigned_int")
    ELSE IF suffix_long THEN "signed_long"
    ELSE IF suffix_unsigned THEN "unsigned_int"
    ELSE "signed_int"

\* parse_number_type: the base type chosen for a literal.
parse_number_type(number, base, suffix_unsigned, suffix_long, suffix_long_long) ==
    IF suffix_unsigned /\ suffix_long_long THEN "unsigned_long_long"
    ELSE IF llong_geu(number, llong_one_shl(63)) THEN "unsigned_long_long"
    ELSE IF suffix_long_long THEN "signed_long_long"
    ELSE IF llong_geu(number, llong_one_shl(32))
    THEN (IF suffix_unsigned THEN "unsigned_long_long" ELSE "signed_long_long")
    ELSE IF base = 10 /\ ~suffix_unsigned /\ llong_geu(number, llong_one_shl(31))
    THEN "signed_long_long"
    ELSE IF suffix_unsigned /\ suffix_long THEN "unsigned_long"
    ELSE IF base # 10 /\ llong_geu(number, llong_one_shl(31))
    THEN (IF suffix_long THEN "unsigned_long" ELSE "unsigned_int")
    ELSE IF suffix_long THEN "signed_long"
    ELSE IF suffix_unsigned THEN "unsigned_int"
    ELSE "signed_int"

type_is_long_long(base_type) == base_type \in {"signed_long_long", "unsigned_long_long"}

NumberNode(type, value) == [kind |-> "NODE_NUMBER", type |-> type, value |-> value]

\* parse_number: [msg, node]; msg # "" is the fatal call.  garbage is the
\* value the uninitialized local was_separator happens to hold.
parse_number(token, garbage) ==
    LET pre == number_prefix(token)
        d == number_digits(token, pre.p, pre.base, llong_clear, garbage)
        sfx == number_suffix(token, d.p, FALSE, FALSE, FALSE)
        type == parse_number_type(d.value, pre.base, sfx.suffix_unsigned,
                                  sfx.suffix_long, sfx.suffix_long_long)
    IN  IF pre.base # 8 /\ CharAt(token, pre.p) = "'"
        THEN [msg |-> "A digit separator is not allowed between an 0x/0b prefix and the first digit.",
              node |-> NoNode]
        ELSE IF d.out_of_range
        THEN [msg |-> "Number does not fit in a 64-bit integer.", node |-> NoNode]
        ELSE IF d.was_separator
        THEN [msg |-> "A digit separator is not allowed at the end of a number.",
              node |-> NoNode]
        ELSE IF sfx.msg # ""
        THEN [msg |-> sfx.msg, node |-> NoNode]
        ELSE [msg |-> "",
              node |-> NumberNode(type, IF type_is_long_long(type) THEN d.value
                                        ELSE u64_low(d.value))]

(* The number tokens given to parse_number: the digits, in each base, of a   *)
(* few seed values around the type boundaries, followed by up to MaxTail     *)
(* more digits and a suffix.  Values are kept in six limbs here, so that the *)
(* mathematical value of a literal is exact.                                 *)
BigLimbs == 1..6
BigPow2(k) == [i \in BigLimbs |-> IF i = (k \div 16) + 1 THEN 2^(k % 16) ELSE 0]
BigPow2Minus1(k) ==
    [i \in BigLimbs |-> IF i < (k \div 16) + 1 THEN LimbBase - 1
                        ELSE IF i = (k \div 16) + 1 THEN 2^(k % 16) - 1 ELSE 0]
BigZero == [i \in BigLimbs |-> 0]
BigIsZero(v) == \A i \in 1..Len(v) : v[i] = 0

RECURSIVE BigRem(_, _, _)
\* The remainder of (the limbs of v from i up) divided by d.
BigRem(v, d, i) ==
    IF i > Len(v) THEN 0 ELSE (BigRem(v, d, i + 1) * LimbBase + v[i]) % d
BigQuot(v, d) ==
    [i \in 1..Len(v) |-> (BigRem(v, d, i + 1) * LimbBase + v[i]) \div d]

RECURSIVE DigitsOf(_, _)
\* The digit characters of v in the given base, without leading zeros.
DigitsOf(v, base) ==
    IF BigIsZero(v) THEN <<>>
    ELSE DigitsOf(BigQuot(v, base), base)
         \o <<(DecimalChars \o LowerHexChars)[BigRem(v, base, 1) + 1]>>

SeedValues ==
    {BigZero, BigPow2(0),
     BigPow2Minus1(31), BigPow2(31), BigPow2Minus1(32), BigPow2(32),
     BigPow2Minus1(63), BigPow2(63), BigPow2Minus1(64), BigPow2(64),
     [BigPow2(64) EXCEPT ![4] = 2^15]}

BasePrefixes == {<<"0", "x">>, <<"0", "b">>, <<"0">>, <<>>}
PrefixBase(prefix) ==
    IF prefix = <<"0", "x">> THEN 16
    ELSE IF prefix = <<"0", "b">> THEN 2
    ELSE IF prefix = <<"0">> THEN 8 ELSE 10

RECURSIVE Tails(_)
Tails(n) ==
    IF n = 0 THEN {<<>>}
    ELSE Tails(n - 1) \cup {t \o <<c>> : t \in Tails(n - 1), c \in {"0", "1"}}

Suffixes ==
    {<<>>, <<"u">>, <<"l">>, <<"L", "L">>, <<"u", "l">>, <<"l", "u">>,
     <<"U", "L", "L">>, <<"l", "l", "u">>, <<"u", "u">>, <<"l", "l", "l">>, <<"z">>}

\* What the lexer hands over as a number token starts with a decimal digit.
NumberTokens ==
    {tok \in {prefix \o DigitsOf(seed, PrefixBase(prefix)) \o tail \o suffix :
                prefix \in BasePrefixes, seed \in SeedValues,
                tail \in Tails(MaxTail), suffix \in Suffixes} :
        tok # <<>> /\ Has(DecimalChars, tok[1])}

InitNumber ==
    /\ fatal = ""
    /\ number_token \in NumberTokens
    /\ number_garbage \in BOOLEAN
    /\ number_node = NoNode
    /\ InitRecordVars
    /\ IdleStringVars
    /\ IdleConvVars
    /\ IdleCallVars
    /\ IdleDeclVars
    /\ IdleLexerVars
    /\ IdleCondVars
    /\ IdleGenVars
    /\ IdleOpcVars
    /\ IdleSpecifiersVars
    /\ IdleGlobalsVars
    /\ IdleEmitVars
    /\ IdleExitVars
    /\ IdleTypesVars
    /\ IdleCmpVars

\* parse_primary_expression on a number token: parse_number runs.
ParseNumber ==
    /\ fatal = ""
    /\ number_node = NoNode
    /\ LET result == parse_number(number_token, number_garbage)
       IN  /\ fatal' = result.msg
           /\ number_node' = result.node
    /\ UNCHANGED <<number_token, number_garbage, notNumberVars>>

NextNumber == ParseNumber

SpecNumber == InitNumber /\ [][NextNumber]_vars

(* The literal that parse_number has read from number_token.                *)
LiteralBase == number_prefix(number_token).base
LiteralDigits ==
    number_digits(number_token, number_prefix(number_token).p, LiteralBase,
                  llong_clear, number_garbage)
LiteralSuffix == number_suffix(number_token, LiteralDigits.p, FALSE, FALSE, FALSE)
NumberAccepted == fatal = "" /\ number_node.kind = "NODE_NUMBER"

\* The candidate types of C17 6.4.4.1.5 for a base and a suffix, in order.
CandidateList(base, u, l, ll) ==
    IF u /\ ll THEN <<"unsigned_long_long">>
    ELSE IF ll
    THEN (IF base = 10 THEN <<"signed_long_long">>
          ELSE <<"signed_long_long", "unsigned_long_long">>)
    ELSE IF u /\ l THEN <<"unsigned_long", "unsigned_long_long">>
    ELSE IF l
    THEN (IF base = 10 THEN <<"signed_long", "signed_long_long">>
          ELSE <<"signed_long", "unsigned_long", "signed_long_long", "unsigned_long_long">>)
    ELSE IF u THEN <<"unsigned_int", "unsigned_long", "unsigned_long_long">>
    ELSE IF base = 10 THEN <<"signed_int", "signed_long", "signed_long_long">>
    ELSE <<"signed_int", "unsigned_int", "signed_long", "unsigned_long",
           "signed_long_long", "unsigned_long_long">>

\* Whether a type with 32-bit int and long and 64-bit long long holds value.
TypeFits(type, value) ==
    IF type \in {"signed_int", "signed_long"} THEN llong_ltu(value, llong_one_shl(31))
    ELSE IF type \in {"unsigned_int", "unsigned_long"} THEN llong_ltu(value, llong_one_shl(32))
    ELSE IF type = "signed_long_long" THEN llong_ltu(value, llong_one_shl(63))
    ELSE type = "unsigned_long_long"

HasFit(list, value) == \E i \in 1..Len(list) : TypeFits(list[i], value)
FirstFit(list, value) ==
    list[Min({i \in 1..Len(list) : TypeFits(list[i], value)})]

LiteralCandidates ==
    LET suffix == LiteralSuffix
    IN  CandidateList(LiteralBase, suffix.suffix_unsigned,
                      suffix.suffix_long, suffix.suffix_long_long)

Decimal2Pow31 == <<"2", "1", "4", "7", "4", "8", "3", "6", "4", "8">>
Hex2Pow31 == <<"0", "x", "8", "0", "0", "0", "0", "0", "0", "0">>

\* C6 (as stated): the type of every accepted literal is the first type of
\* its C17 6.4.4.1.5 candidate list that can represent the value.
C6_FirstCandidateAlways ==
    NumberAccepted =>
        LET value == LiteralDigits.value
            list == LiteralCandidates
        IN  /\ HasFit(list, value)
            /\ number_node.type = FirstFit(list, value)

\* C6 (amended): the type of every accepted literal is the first type of its
\* C17 6.4.4.1.5 candidate list that can represent the value when there is
\* one, and unsigned long long when there is none (a base-10 literal without
\* u suffix and a value of 2^63 or more); the value always fits the chosen
\* type; unsuffixed decimal 2^31 is signed long long and unsuffixed 0x80000000
\* is unsigned int.
C6_FirstCandidateOrUnsignedLongLong ==
    NumberAccepted =>
        LET value == LiteralDigits.value
            list == LiteralCandidates
            fit == HasFit(list, value)
        IN  /\ number_node.type =
                  IF fit THEN FirstFit(list, value) ELSE "unsigned_long_long"
            /\ ~fit =>
                  /\ LiteralBase = 10
                  /\ "unsigned_long_long" \notin {list[i] : i \in 1..Len(list)}
                  /\ llong_geu(value, llong_one_shl(63))
            /\ TypeFits(number_node.type, value)
            /\ number_token = Decimal2Pow31 => number_node.type = "signed_long_long"
            /\ number_token = Hex2Pow31 => number_node.type = "unsigned_int"

\* Unsuffixed decimal 2^31 has been typed signed long long.
C6_Witness ==
    /\ NumberAccepted
    /\ number_token = Decimal2Pow31
    /\ number_node.type = "signed_long_long"
    /\ number_node.value = llong_one_shl(31)

RECURSIVE MathValue(_, _, _, _)
\* The mathematical value of the digits of token from position p on, in six
\* limbs (no wrap-around for the tokens of the model).
MathValue(token, p, base, acc) ==
    IF CharAt(token, p) = "'" THEN MathValue(token, p + 1, base, acc)
    ELSE IF digit_of(CharAt(token, p)) >= base THEN acc
    ELSE MathValue(token, p + 1, base,
                   limbs_mul_add(acc, base, 1, digit_of(CharAt(token, p))))

LiteralMathValue ==
    MathValue(number_token, number_prefix(number_token).p, LiteralBase, BigZero)

\* C7: no literal whose mathematical value exceeds 2^64 - 1 is accepted, in
\* any base: parse_number ends in the fatal call for each of them.
C7_OverflowRejected ==
    NumberAccepted => limbs_ltu(LiteralMathValue, BigPow2(64), 6)

(***************************************************************************)
(* parse_expr.c: string-literal labels (parse_string, parse_builtin_func)   *)
(***************************************************************************)

\* Bound of the string model: label indices allocated in a run.
MaxStrings == 6

\* function_new: no label for the name yet.
function_new == [is_null |-> FALSE, name_label |-> -1]

\* parse_string, line 297: int label = next_string++.
parse_string(n) == [label |-> n, next_string |-> n + 1]

\* parse_builtin_func taking a label for the name without advancing the counter.
parse_builtin_func_no_increment(function, n) ==
    IF function.name_label = -1
    THEN [function |-> [function EXCEPT !.name_label = n],
          next_string |-> n, emitted |-> TRUE, label |-> n]
    ELSE [function |-> function,
          next_string |-> n, emitted |-> FALSE, label |-> function.name_label]

\* parse_builtin_func that emits the name at every __func__.
parse_builtin_func_emits_again(function, n) ==
    IF function.name_label = -1
    THEN [function |-> [function EXCEPT !.name_label = n],
          next_string |-> n + 1, emitted |-> TRUE, label |-> n]
    ELSE [function |-> function,
          next_string |-> n, emitted |-> TRUE, label |-> function.name_label]

\* parse_builtin_func, lines 1297-1318: the first __func__ of a function takes
\* a label and emits the name; later ones reuse the label.
parse_builtin_func(function, n) ==
    IF function.name_label = -1
    THEN [function |-> [function EXCEPT !.name_label = n],
          next_string |-> n + 1, emitted |-> TRUE, label |-> n]
    ELSE [function |-> function,
          next_string |-> n, emitted |-> FALSE, label |-> function.name_label]

InitStrings ==
    /\ fatal = ""
    /\ IdleStringVars
    /\ InitRecordVars
    /\ IdleNumberVars
    /\ IdleConvVars
    /\ IdleCallVars
    /\ IdleDeclVars
    /\ IdleLexerVars
    /\ IdleCondVars
    /\ IdleGenVars
    /\ IdleOpcVars
    /\ IdleSpecifiersVars
    /\ IdleGlobalsVars
    /\ IdleEmitVars
    /\ IdleExitVars
    /\ IdleTypesVars
    /\ IdleCmpVars

\* parse_function_definition, lines 932-934: current_function = function_new().
FunctionBegin ==
    /\ fatal = ""
    /\ current_function.is_null
    /\ current_function' = function_new
    /\ UNCHANGED <<fatal, next_string, string_labels, string_node, notStringVars>>

\* parse_function_definition, line 981: current_function = NULL.
FunctionEnd ==
    /\ fatal = ""
    /\ ~current_function.is_null
    /\ current_function' = NullFunction
    /\ UNCHANGED <<fatal, next_string, string_labels, string_node, notStringVars>>

\* parse_string on a run of adjacent string tokens; a token with a prefix is
\* fatal after the label has been taken and emitted.
ParseString ==
    /\ fatal = ""
    /\ next_string < MaxStrings
    /\ \E has_prefix \in BOOLEAN :
          /\ next_string' = parse_string(next_string).next_string
          /\ string_labels' = Append(string_labels,
                 [index |-> parse_string(next_string).label, by |-> "parse_string"])
          /\ IF has_prefix
             THEN /\ fatal' = "TODO string prefixes not yet implemented"
                  /\ UNCHANGED string_node
             ELSE /\ string_node' = parse_string(next_string).label
                  /\ UNCHANGED fatal
    /\ UNCHANGED <<current_function, notStringVars>>

\* parse_builtin_func inside a function.
ParseBuiltinFunc ==
    /\ fatal = ""
    /\ ~current_function.is_null
    /\ next_string < MaxStrings
    /\ LET r == parse_builtin_func(current_function, next_string)
       IN  /\ current_function' = r.function
           /\ next_string' = r.next_string
           /\ string_labels' =
                 IF r.emitted
                 THEN Append(string_labels, [index |-> r.label, by |-> "parse_builtin_func"])
                 ELSE string_labels
           /\ string_node' = r.label
    /\ UNCHANGED <<fatal, notStringVars>>

\* parse_builtin_func at file scope: current_function is NULL and is
\* dereferenced.  The read of name_label either traps or yields any value;
\* the write of a new label through the null pointer leaves no function.
ParseBuiltinFuncNoFunction ==
    /\ fatal = ""
    /\ current_function.is_null
    /\ next_string < MaxStrings
    /\ \/ /\ fatal' = "null pointer dereference"
          /\ UNCHANGED <<next_string, string_labels, string_node>>
       \/ \E garbage \in -1..(MaxStrings - 1) :
             LET r == parse_builtin_func([is_null |-> FALSE, name_label |-> garbage],
                                         next_string)
             IN  /\ next_string' = r.next_string
                 /\ string_labels' =
                       IF r.emitted
                       THEN Append(string_labels,
                                   [index |-> r.label, by |-> "parse_builtin_func"])
                       ELSE string_labels
                 /\ string_node' = r.label
                 /\ UNCHANGED fatal
    /\ UNCHANGED <<current_function, notStringVars>>

NextStrings ==
    \/ FunctionBegin
    \/ FunctionEnd
    \/ ParseString
    \/ ParseBuiltinFunc
    \/ ParseBuiltinFuncNoFunction

SpecStrings == InitStrings /\ [][NextStrings]_vars

\* C4: the label indices allocated by parse_string and by the first __func__
\* of a function all come from the counter next_string: in allocation order
\* they are strictly increasing, hence pairwise distinct, and below the
\* counter.
C4_LabelsDistinctIncreasing ==
    /\ \A i, j \in 1..Len(string_labels) :
          i < j => string_labels[i].index < string_labels[j].index
    /\ \A i, j \in 1..Len(string_labels) :
          i # j => string_labels[i].index # string_labels[j].index
    /\ \A i \in 1..Len(string_labels) : string_labels[i].index < next_string

\* A string literal, then the first __func__ of a function, then another
\* string literal have taken labels, and __func__ has been used again since.
C4_Witness ==
    /\ fatal = ""
    /\ Len(string_labels) >= 3
    /\ string_labels[1].by = "parse_string"
    /\ string_labels[2].by = "parse_builtin_func"
    /\ string_labels[3].by = "parse_string"
    /\ ~current_function.is_null
    /\ current_function.name_label = string_labels[2].index
    /\ string_node = current_function.name_label

(***************************************************************************)
(* parse_expr.c: parse_usual_arithmetic_conversions                         *)
(***************************************************************************)

type_new_base(base) == [declarator |-> "none", base |-> base, count |-> 0, record |-> 0]

\* The base types of arithmetic operands.
ArithmeticBases ==
    {"bool", "char", "signed_char", "unsigned_char", "signed_short", "unsigned_short",
     "signed_int", "unsigned_int", "signed_long", "unsigned_long",
     "signed_long_long", "unsigned_long_long", "enum", "float", "double", "long_double"}

ArithmeticTypes == {type_new_base(base) : base \in ArithmeticBases}

type_equal(left, right) == left = right
type_matches_base(type, base) == type.declarator = "none" /\ type.base = base

type_is_signed_integer(type) ==
    type.base \in {"signed_char", "signed_short", "signed_int", "signed_long",
                   "signed_long_long"}

\* type_integer_rank: the conversion ranks of C17 6.3.1.1.
type_integer_rank(type) ==
    CASE type.base = "bool" -> 1
      [] type.base \in {"char", "signed_char", "unsigned_char"} -> 2
      [] type.base \in {"signed_short", "unsigned_short"} -> 3
      [] type.base \in {"signed_int", "unsigned_int", "enum"} -> 4
      [] type.base \in {"signed_long", "unsigned_long"} -> 5
      [] type.base \in {"signed_long_long", "unsigned_long_long"} -> 6

base_unsigned_of_signed(base) ==
    CASE base = "signed_char" -> "unsigned_char"
      [] base = "signed_short" -> "unsigned_short"
      [] base = "signed_int" -> "unsigned_int"
      [] base = "signed_long" -> "unsigned_long"
      [] base = "signed_long_long" -> "unsigned_long_long"

\* node_promote: integer promotion; every type of rank below int, and an
\* enum, becomes int (int holds all their values).
node_promote(type) ==
    IF type.base \in {"bool", "char", "signed_char", "unsigned_char",
                      "signed_short", "unsigned_short", "enum"}
    THEN type_new_base("signed_int")
    ELSE type

\* node_cast: the node takes the given type.
node_cast(type, to) == to

\* The integer part of the conversions with the rank comparison of two types
\* of the same signedness left out: the right operand is always cast.
integer_conversions_cast_right(left_type, right_type) ==
    IF type_is_signed_integer(left_type) = type_is_signed_integer(right_type)
    THEN [left |-> left_type, right |-> node_cast(right_type, left_type)]
    ELSE [left |-> node_cast(left_type, right_type), right |-> right_type]

\* parse_usual_arithmetic_conversions, lines 813-862: both types are integers.
integer_conversions(left_type, right_type) ==
    LET left_signed == type_is_signed_integer(left_type)
        right_signed == type_is_signed_integer(right_type)
        left_rank == type_integer_rank(left_type)
        right_rank == type_integer_rank(right_type)
        left_size == type_size(left_type, <<>>)
        right_size == type_size(right_type, <<>>)
        base == base_unsigned_of_signed(IF left_signed THEN left_type.base
                                        ELSE right_type.base)
    IN  IF left_signed = right_signed
        THEN (IF left_rank > right_rank
              THEN [left |-> left_type, right |-> node_cast(right_type, left_type)]
              ELSE [left |-> node_cast(left_type, right_type), right |-> right_type])
        ELSE IF left_signed /\ left_rank < right_rank
        THEN [left |-> node_cast(left_type, right_type), right |-> right_type]
        ELSE IF ~left_signed /\ right_rank < left_rank
        THEN [left |-> left_type, right |-> node_cast(right_type, left_type)]
        ELSE IF left_signed /\ left_size > right_size
        THEN [left |-> left_type, right |-> node_cast(right_type, left_type)]
        ELSE IF ~left_signed /\ right_size > left_size
        THEN [left |-> node_cast(left_type, right_type), right |-> right_type]
        ELSE [left |-> node_cast(left_type, type_new_base(base)),
              right |-> node_cast(right_type, type_new_base(base))]

\* parse_usual_arithmetic_conversions, lines 772-811: after promotion, both
\* types are floating point or equal, or the integer part decides.
promoted_conversions(left_type, right_type) ==
    IF type_equal(left_type, right_type)
    THEN [left |-> left_type, right |-> right_type]
    ELSE IF type_matches_base(left_type, "long_double")
    THEN [left |-> left_type, right |-> node_cast(right_type, left_type)]
    ELSE IF type_matches_base(right_type, "long_double")
    THEN [left |-> node_cast(left_type, right_type), right |-> right_type]
    ELSE IF type_matches_base(left_type, "double")
    THEN [left |-> left_type, right |-> node_cast(right_type, left_type)]
    ELSE IF type_matches_base(right_type, "double")
    THEN [left |-> node_cast(left_type, right_type), right |-> right_type]
    ELSE IF type_matches_base(left_type, "float")
    THEN [left |-> left_type, right |-> node_cast(right_type, left_type)]
    ELSE IF type_matches_base(right_type, "float")
    THEN [left |-> node_cast(left_type, right_type), right |-> right_type]
    ELSE integer_conversions(left_type, right_type)

\* parse_usual_arithmetic_conversions: the types of *left and *right after it.
parse_usual_arithmetic_conversions(left_type, right_type) ==
    promoted_conversions(node_promote(left_type), node_promote(right_type))

InitConv ==
    /\ fatal = ""
    /\ conv_operands \in ArithmeticTypes \X ArithmeticTypes
    /\ conv_left = conv_operands[1]
    /\ conv_right = conv_operands[2]
    /\ conv_done = FALSE
    /\ InitRecordVars
    /\ IdleNumberVars
    /\ IdleStringVars
    /\ IdleCallVars
    /\ IdleDeclVars
    /\ IdleLexerVars
    /\ IdleCondVars
    /\ IdleGenVars
    /\ IdleOpcVars
    /\ IdleSpecifiersVars
    /\ IdleGlobalsVars
    /\ IdleEmitVars
    /\ IdleExitVars
    /\ IdleTypesVars
    /\ IdleCmpVars

\* A binary arithmetic operator converts its two operands.
ParseUsualArithmeticConversions ==
    /\ fatal = ""
    /\ ~conv_done
    /\ LET r == parse_usual_arithmetic_conversions(conv_left, conv_right)
       IN  /\ conv_left' = r.left
           /\ conv_right' = r.right
    /\ conv_done' = TRUE
    /\ UNCHANGED <<fatal, conv_operands, notConvVars>>

NextConv == ParseUsualArithmeticConversions

SpecConv == InitConv /\ [][NextConv]_vars

\* C5: for every pair of arithmetic operand types (A, B), the conversions
\* give both operands one common type, and it is the type they give for the
\* operands in the order (B, A).
C5_ConversionsSymmetric ==
    conv_done =>
        LET swapped == parse_usual_arithmetic_conversions(conv_operands[2],
                                                          conv_operands[1])
        IN  /\ conv_left = conv_right
            /\ swapped.left = conv_left
            /\ swapped.right = conv_right

\* An unsigned int and a long operand, which differ in both signedness and
\* rank and have the same size, have been converted to unsigned long.
C5_Witness ==
    /\ conv_done
    /\ conv_operands = <<type_new_base("unsigned_int"), type_new_base("signed_long")>>
    /\ conv_left = type_new_base("unsigned_long")
    /\ conv_right = type_new_base("unsigned_long")

(***************************************************************************)
(* parse_expr.c: parse_function_call                                        *)
(***************************************************************************)

\* Bounds of the call model: declared parameters, and arguments parsed.
MaxParams == 3
MaxArgs == 5

\* The type of the expression before the parenthesis: a function type (or a
\* pointer to one) with count parameters, or some other type.
CalleeTypes ==
    [is_function : {TRUE}, count : 0..MaxParams, is_variadic : BOOLEAN]
    \cup {[is_function |-> FALSE, count |-> 0, is_variadic |-> FALSE]}

\* parse_function_call, line 463: the test made before each argument.
too_many_arguments(type, arg_count) == ~type.is_variadic /\ arg_count > type.count

\* parse_function_call, line 505: the test made after the closing parenthesis.
not_enough_arguments(type, arg_count) == arg_count < type.count

\* parse_function_call, lines 470-490: an argument for a declared parameter
\* is cast to the parameter type, any other is promoted if it is arithmetic.
convert_argument(type, arg_count, is_arithmetic) ==
    IF arg_count < type.count THEN "cast"
    ELSE IF is_arithmetic THEN "promoted" ELSE "unchanged"

InitCall ==
    /\ fatal = ""
    /\ call_type \in CalleeTypes
    /\ call_args = <<>>
    /\ call_state = "open"
    /\ InitRecordVars
    /\ IdleNumberVars
    /\ IdleStringVars
    /\ IdleConvVars
    /\ IdleDeclVars
    /\ IdleLexerVars
    /\ IdleCondVars
    /\ IdleGenVars
    /\ IdleOpcVars
    /\ IdleSpecifiersVars
    /\ IdleGlobalsVars
    /\ IdleEmitVars
    /\ IdleExitVars
    /\ IdleTypesVars
    /\ IdleCmpVars

\* parse_function_call, lines 448-461 and 505-509: the callee is checked, and
\* an immediate closing parenthesis ends the call with no argument.
ParseFunctionCallOpen ==
    /\ fatal = ""
    /\ call_state = "open"
    /\ IF ~call_type.is_function
       THEN /\ fatal' = "Expected callable function before (."
            /\ UNCHANGED call_state
       ELSE \E closes \in BOOLEAN :
               IF ~closes
               THEN /\ call_state' = "args"
                    /\ UNCHANGED fatal
               ELSE IF not_enough_arguments(call_type, Len(call_args))
               THEN /\ fatal' = "Not enough arguments in function call."
                    /\ UNCHANGED call_state
               ELSE /\ call_state' = "call"
                    /\ UNCHANGED fatal
    /\ UNCHANGED <<call_type, call_args, notCallVars>>

\* parse_function_call, lines 462-507: one turn of the argument loop, and
\* the end of the call when the argument is followed by the parenthesis.
ParseFunctionCallArgument ==
    /\ fatal = ""
    /\ call_state = "args"
    /\ Len(call_args) < MaxArgs
    /\ IF too_many_arguments(call_type, Len(call_args))
       THEN /\ fatal' = "Too many arguments in function call."
            /\ UNCHANGED <<call_args, call_state>>
       ELSE \E is_arithmetic \in BOOLEAN, next \in {")", ",", ";"} :
               /\ call_args' = Append(call_args,
                      convert_argument(call_type, Len(call_args), is_arithmetic))
               /\ IF next = ","
                  THEN UNCHANGED <<fatal, call_state>>
                  ELSE IF next # ")"
                  THEN /\ fatal' = "Expected , or ) after function argument."
                       /\ UNCHANGED call_state
                  ELSE IF not_enough_arguments(call_type, Len(call_args'))
                  THEN /\ fatal' = "Not enough arguments in function call."
                       /\ UNCHANGED call_state
                  ELSE /\ call_state' = "call"
                       /\ UNCHANGED fatal
    /\ UNCHANGED <<call_type, notCallVars>>

NextCall == ParseFunctionCallOpen \/ ParseFunctionCallArgument

SpecCall == InitCall /\ [][NextCall]_vars

CallAccepted == fatal = "" /\ call_state = "call"

\* C8: a call to a non-variadic function with N parameters is accepted only
\* with exactly N arguments, and a call to a variadic function only with at
\* least N arguments.
C8_ArgumentCountChecked ==
    CallAccepted =>
        IF call_type.is_variadic
        THEN Len(call_args) >= call_type.count
        ELSE Len(call_args) = call_type.count

(***************************************************************************)
(* parse_decl.c: declarations of one variable name at file scope            *)
(* (parse_variable_declaration, parse_global_variable_declaration,          *)
(* parse_redeclaration_types, parse_local_extern_variable_declaration)      *)
(***************************************************************************)

\* Bound of the declaration model: declarations of the name in a run.
MaxDecls == 4

TypeIntArray == [declarator |-> "array", base |-> "signed_int", count |-> 2, record |-> 0]

\* The types the name is declared with: int, int[2], int[] and char[5].
DeclTypes == {TypeInt, TypeIntArray, TypeIntFlexible, TypeCharArray}

StorageSpecifiers == {"none", "static", "extern"}

type_is_declarator(type) == type.declarator # "none"

\* type->ref of an array: its element type.
type_ref_of(type) == type_new_base(type.base)

\* type_new_array(type->ref, count)
type_new_array(ref, count) ==
    [declarator |-> "array", base |-> ref.base, count |-> count, record |-> 0]

\* symbol_new: id tells the symbol objects of different declarations apart.
symbol_new(type, id) ==
    [exists |-> TRUE, id |-> id, type |-> type, linkage |-> "none",
     is_tentative |-> FALSE, is_defined |-> FALSE, is_hidden |-> FALSE]

\* parse_redeclaration_types: [msg, old, new] after checking and adjusting
\* the types of the previous and the new symbol.
parse_redeclaration_types(old, new) ==
    IF /\ type_is_declarator(old.type) /\ type_is_declarator(new.type)
       /\ old.type.declarator = "array" /\ new.type.declarator = "indeterminate"
    THEN (IF ~type_equal(type_ref_of(old.type), type_ref_of(new.type))
          THEN [msg |-> "Variable re-declared at file scope with a different type.",
                old |-> old, new |-> new]
          ELSE [msg |-> "", old |-> old, new |-> [new EXCEPT !.type = old.type]])
    ELSE IF /\ type_is_declarator(old.type) /\ type_is_declarator(new.type)
            /\ new.type.declarator = "array" /\ old.type.declarator = "indeterminate"
    THEN (IF ~type_equal(type_ref_of(new.type), type_ref_of(old.type))
          THEN [msg |-> "Variable re-declared at file scope with a different type.",
                old |-> old, new |-> new]
          ELSE [msg |-> "", old |-> [old EXCEPT !.type = new.type], new |-> new])
    ELSE IF ~type_equal(old.type, new.type)
    THEN [msg |-> "Variable re-declared at file scope with a different type.",
          old |-> old, new |-> new]
    ELSE [msg |-> "", old |-> old, new |-> new]

\* parse_global_variable_declaration, lines 1149-1153.
global_symbol(storage, type, has_initializer, id) ==
    [symbol_new(type, id) EXCEPT
        !.linkage = IF storage = "static" THEN "internal" ELSE "external",
        !.is_tentative = ~has_initializer /\ storage # "extern",
        !.is_defined = has_initializer]

\* parse_global_variable_declaration, lines 1163-1186, with the test for a
\* second definition left out.
redeclare_no_definition_test(previous, new, storage) ==
    LET symbol == IF storage = "extern"
                  THEN [new EXCEPT !.linkage = previous.linkage] ELSE new
    IN  IF storage # "extern" /\ previous.linkage # symbol.linkage
        THEN [msg |-> "Variable re-declared at file scope with a different linkage.",
              scope |-> previous, symbol |-> symbol]
        ELSE IF \/ symbol.is_defined
                \/ symbol.is_tentative /\ ~previous.is_defined /\ ~previous.is_tentative
        THEN [msg |-> "", scope |-> symbol, symbol |-> symbol]
        ELSE [msg |-> "", scope |-> previous, symbol |-> symbol]

\* parse_global_variable_declaration, lines 1163-1186: linkage, the single
\* definition, and whether the new symbol replaces the previous one.
\* [msg, scope, symbol]: scope is the symbol left in the scope.
redeclare(previous, new, storage) ==
    LET symbol == IF storage = "extern"
                  THEN [new EXCEPT !.linkage = previous.linkage] ELSE new
    IN  IF storage # "extern" /\ previous.linkage # symbol.linkage
        THEN [msg |-> "Variable re-declared at file scope with a different linkage.",
              scope |-> previous, symbol |-> symbol]
        ELSE IF previous.is_defined /\ symbol.is_defined
        THEN [msg |-> "Variable re-defined at file scope.",
              scope |-> previous, symbol |-> symbol]
        ELSE IF \/ symbol.is_defined
                \/ symbol.is_tentative /\ ~previous.is_defined /\ ~previous.is_tentative
        THEN [msg |-> "", scope |-> symbol, symbol |-> symbol]
        ELSE [msg |-> "", scope |-> previous, symbol |-> symbol]

\* parse_global_variable_declaration: [msg, scope, symbol].
parse_global_variable_declaration(previous, storage, type, has_initializer, id) ==
    LET symbol == global_symbol(storage, type, has_initializer, id)
        types == parse_redeclaration_types(previous, symbol)
    IN  IF ~previous.exists
        THEN [msg |-> "", scope |-> symbol, symbol |-> symbol]
        ELSE IF types.msg # ""
        THEN [msg |-> types.msg, scope |-> previous, symbol |-> symbol]
        ELSE redeclare(types.old, types.new, storage)

\* parse_variable_declaration, lines 1224-1237: an initialized array of
\* indeterminate length takes its length from the initializer.
sized_by_initializer(symbol, initializer_count) ==
    IF initializer_count > 0 /\ symbol.type.declarator = "indeterminate"
    THEN [symbol EXCEPT !.type = type_new_array(type_ref_of(symbol.type), initializer_count)]
    ELSE symbol

InitDecl ==
    /\ fatal = ""
    /\ IdleDeclVars
    /\ InitRecordVars
    /\ IdleNumberVars
    /\ IdleStringVars
    /\ IdleConvVars
    /\ IdleCallVars
    /\ IdleLexerVars
    /\ IdleCondVars
    /\ IdleGenVars
    /\ IdleOpcVars
    /\ IdleSpecifiersVars
    /\ IdleGlobalsVars
    /\ IdleEmitVars
    /\ IdleExitVars
    /\ IdleTypesVars
    /\ IdleCmpVars

\* parse_variable_declaration at file scope (parent is NULL).  The
\* initializer is absent (0) or has initializer_count elements.
ParseVariableDeclaration ==
    /\ fatal = ""
    /\ decl_count < MaxDecls
    /\ \E storage \in StorageSpecifiers, type \in DeclTypes, initializer_count \in 0..2 :
          LET has_initializer == initializer_count > 0
              r == parse_global_variable_declaration(decl_symbol, storage, type,
                                                     has_initializer, decl_count + 1)
              symbol == sized_by_initializer(r.symbol, initializer_count)
          IN  /\ decl_count' = decl_count + 1
              /\ decl_last' = [local |-> FALSE, storage |-> storage, type |-> type,
                               has_initializer |-> has_initializer]
              /\ IF has_initializer /\ storage = "extern"
                 THEN /\ fatal' = "Cannot initialize a variable with extern storage specifier."
                      /\ UNCHANGED <<decl_symbol, decl_emitted, decl_file_scope>>
                 ELSE IF r.msg # ""
                 THEN /\ fatal' = r.msg
                      /\ UNCHANGED <<decl_symbol, decl_emitted, decl_file_scope>>
                 ELSE /\ decl_symbol' = IF r.scope.id = symbol.id THEN symbol ELSE r.scope
                      /\ decl_emitted' =
                            IF symbol.is_defined /\ symbol.linkage # "none"
                            THEN decl_emitted + 1 ELSE decl_emitted
                      /\ decl_file_scope' = TRUE
                      /\ UNCHANGED fatal
    /\ UNCHANGED <<decl_access, notDeclVars>>

\* parse_local_extern_variable_declaration in a block that has not declared
\* the name: the file-scope symbol is checked, or a hidden one is planted.
ParseLocalExternVariableDeclaration ==
    /\ fatal = ""
    /\ decl_count < MaxDecls
    /\ \E type \in DeclTypes :
          /\ decl_count' = decl_count + 1
          /\ decl_last' = [local |-> TRUE, storage |-> "extern", type |-> type,
                           has_initializer |-> FALSE]
          /\ IF decl_symbol.exists
             THEN /\ fatal' = IF type_equal(type, decl_symbol.type) THEN ""
                              ELSE "extern variable re-declared with different type."
                  /\ UNCHANGED decl_symbol
             ELSE /\ decl_symbol' = [symbol_new(type, decl_count + 1) EXCEPT
                                        !.linkage = "external", !.is_hidden = TRUE]
                  /\ UNCHANGED fatal
    /\ UNCHANGED <<decl_emitted, decl_file_scope, decl_access, notDeclVars>>

\* scope_find_symbol(scope_current, name, true) in a function that does not
\* declare the name: the symbol of the file scope, which is the last scope
\* of the search.
scope_find_symbol(symbol) == symbol

\* parse_primary_expression with the name as the token: [msg, access].
parse_primary_expression(scope) ==
    LET symbol == scope_find_symbol(scope)
    IN  IF ~symbol.exists \/ symbol.is_hidden
        THEN [msg |-> "No such variable or function: %s", access |-> FALSE]
        ELSE [msg |-> "", access |-> TRUE]

\* The name is used in an expression of a function that does not declare it.
ParsePrimaryExpression ==
    /\ fatal = ""
    /\ LET r == parse_primary_expression(decl_symbol)
       IN  /\ fatal' = r.msg
           /\ decl_access' = r.access
    /\ UNCHANGED <<decl_symbol, decl_last, decl_count, decl_emitted, decl_file_scope,
                   notDeclVars>>

NextDecl ==
    \/ ParseVariableDeclaration
    \/ ParseLocalExternVariableDeclaration
    \/ ParsePrimaryExpression

SpecDecl == InitDecl /\ [][NextDecl]_vars

\* C28: once a declaration of the name at file scope has been accepted, a
\* later use of the name resolves to a symbol that is not hidden: it is not
\* rejected as an unknown name.
C28_UseAfterFileScopeResolves ==
    decl_file_scope => fatal # "No such variable or function: %s"

\* What holds of the code: a use is rejected exactly if the file scope has no
\* symbol of the name or a hidden one, whatever has been declared.
C28_RejectedIfHidden ==
    /\ fatal = "No such variable or function: %s" =>
          (~decl_symbol.exists \/ decl_symbol.is_hidden)
    /\ decl_access => (decl_symbol.exists /\ ~decl_symbol.is_hidden)

\* extern int x; in a block, extern int x; at file scope, and a use of x in
\* another function: the file-scope declaration is accepted, the hidden
\* symbol stays in the scope, and the use is rejected.
C28_ExternAfterBlockExtern ==
    /\ decl_file_scope
    /\ decl_last = [local |-> FALSE, storage |-> "extern", type |-> TypeInt,
                    has_initializer |-> FALSE]
    /\ decl_symbol.is_hidden
    /\ decl_count = 2
    /\ fatal = "No such variable or function: %s"

\* int x; at file scope and a later use of x: the use resolves.
C28_TentativeThenUse ==
    /\ decl_file_scope
    /\ decl_last = [local |-> FALSE, storage |-> "none", type |-> TypeInt,
                    has_initializer |-> FALSE]
    /\ decl_count = 1
    /\ decl_access
    /\ ~decl_symbol.is_hidden

C9_Step ==
    /\ decl_emitted' <= 1
    /\ decl_symbol.exists /\ decl_symbol.is_defined => decl_symbol' = decl_symbol
    /\ (/\ decl_symbol.exists /\ decl_symbol.is_defined
        /\ decl_count' # decl_count
        /\ decl_last'.has_initializer) => fatal' # ""

\* C9: over any sequence of file-scope declarations of one name, at most one
\* declaration with an initializer is accepted (and emitted); a declaration
\* with an initializer that comes after a definition is fatal; and once a
\* definition is the symbol of the scope, no later declaration replaces it.
C9_SingleDefinition == [][C9_Step]_vars

\* A definition was followed by a declaration that it survived, and then by
\* a second declaration with an initializer, which was fatal.
C9_Witness ==
    /\ fatal = "Variable re-defined at file scope."
    /\ decl_last.has_initializer
    /\ decl_symbol.exists /\ decl_symbol.is_defined
    /\ decl_symbol.id < decl_count - 1
    /\ decl_emitted = 1

(***************************************************************************)
(* lexer.c: lexer_init, lexer_consume, lexer_push                           *)
(*                                                                          *)
(* A character is a one-character string; EOF is the -1 that fgetc returns  *)
(* at the end of the file.  The bytes without a string escape are named:    *)
(* "BEL", "BS", "VT", "ESC".  A scanner state s holds pos (characters read  *)
(* from the file), char (lexer_char), line (current_line), filename,        *)
(* buffer (lexer_buffer), token (lexer_token) and msg (the fatal message,   *)
(* "" if none).                                                             *)
(***************************************************************************)

\* Bound of the lexer model: lexemes concatenated into an input file.
MaxLexemes == 2

\* Bound of the lexer model: the end tokens that are counted.
MaxEnds == 2

EOF == "EOF"

AlphaChars ==
    {"a", "b", "c", "d", "e", "f", "g", "h", "i", "j", "k", "l", "m", "n", "o",
     "p", "q", "r", "s", "t", "u", "v", "w", "x", "y", "z",
     "A", "B", "C", "D", "E", "F", "G", "H", "I", "J", "K", "L", "M", "N", "O",
     "P", "Q", "R", "S", "T", "U", "V", "W", "X", "Y", "Z"}
DigitChars == {"0", "1", "2", "3", "4", "5", "6", "7", "8", "9"}

isalpha(c) == c \in AlphaChars
isdigit(c) == c \in DigitChars
isalnum(c) == isalpha(c) \/ isdigit(c)
isspace(c) == c \in {" ", "\t", "\n", "VT", "\f", "\r"}

\* strchr("+-*/%&|^!~<>=()[]{}.?:,;", c)
PunctuationChars ==
    {"+", "-", "*", "/", "%", "&", "|", "^", "!", "~", "<", ">", "=", "(", ")",
     "[", "]", "{", "}", ".", "?", ":", ",", ";"}

token_new(type, value, filename, line) ==
    [type |-> type, value |-> value, filename |-> filename, line |-> line]

Fatal(s, msg) == [s EXCEPT !.msg = msg]

lexer_buffer_append(s, c) == [s EXCEPT !.buffer = Append(@, c)]

lexer_is_alphanumeric(c, first) ==
    /\ c # EOF
    /\ ~(first /\ isdigit(c))
    /\ (isalnum(c) \/ c \in {"_", "$"})

lexer_is_end_of_line(c) == c \in {"\n", "\r", EOF}

lexer_read_char(input, s) ==
    [s EXCEPT !.pos = s.pos + 1,
              !.char = IF s.pos + 1 <= Len(input) THEN input[s.pos + 1] ELSE EOF]

\* lexer_consume_escape_sequence: the fatal message for the character after
\* the backslash, "" if the escape is supported.
escape_sequence_fatal(c) ==
    IF c \in {"a", "b", "t", "n", "v", "f", "r", "e", "\"", "'", "?", "\\"} THEN ""
    ELSE IF c = "0" THEN "Octal escape sequences are not yet supported."
    ELSE IF c \in {"x", "X"} THEN "Hexadecimal escape sequences are not supported in opC."
    ELSE IF c \in {"u", "U"} THEN "Unicode escape sequences are not supported in opC."
    ELSE "Unrecognized escape sequence"

\* lexer_consume_escape_sequence: the byte of a supported escape.
escape_sequence_value(c) ==
    CASE c = "a" -> "BEL"
      [] c = "b" -> "BS"
      [] c = "t" -> "\t"
      [] c = "n" -> "\n"
      [] c = "v" -> "VT"
      [] c = "f" -> "\f"
      [] c = "r" -> "\r"
      [] c = "e" -> "ESC"
      [] OTHER -> c

RECURSIVE string_literal_loop(_, _)
\* lexer_consume_string_literal, lines 209-225.
string_literal_loop(input, s) ==
    LET r == lexer_read_char(input, s)
        e == lexer_read_char(input, r)
    IN  IF r.char = "\"" THEN lexer_read_char(input, r)
        ELSE IF lexer_is_end_of_line(r.char) THEN Fatal(r, "Unclosed string literal")
        ELSE IF r.char = "\\"
        THEN (IF escape_sequence_fatal(e.char) # ""
              THEN Fatal(e, escape_sequence_fatal(e.char))
              ELSE string_literal_loop(input,
                       lexer_buffer_append(e, escape_sequence_value(e.char))))
        ELSE string_literal_loop(input, lexer_buffer_append(r, r.char))

lexer_consume_string_literal(input, s) ==
    string_literal_loop(input, [s EXCEPT !.buffer = <<>>])

\* lexer_consume_char_literal, lines 247-255: the closing quote.
char_literal_close(input, s) ==
    LET r == lexer_read_char(input, s)
    IN  IF lexer_is_end_of_line(r.char) THEN Fatal(r, "Unclosed character literal.")
        ELSE IF r.char # "'"
        THEN Fatal(r, "Only a single character is supported in a char literal.")
        ELSE lexer_read_char(input, r)

lexer_consume_char_literal(input, s) ==
    LET r == lexer_read_char(input, s)
        e == lexer_read_char(input, r)
    IN  IF r.char = "'" THEN Fatal(r, "Empty char literal is not allowed.")
        ELSE IF lexer_is_end_of_line(r.char) THEN Fatal(r, "Unclosed character literal.")
        ELSE IF r.char = "\\"
        THEN (IF escape_sequence_fatal(e.char) # ""
              THEN Fatal(e, escape_sequence_fatal(e.char))
              ELSE char_literal_close(input,
                       [e EXCEPT !.buffer = <<escape_sequence_value(e.char)>>]))
        ELSE char_literal_close(input, [r EXCEPT !.buffer = <<r.char>>])

RECURSIVE lexer_consume_optional_horizontal_whitespace(_, _)
lexer_consume_optional_horizontal_whitespace(input, s) ==
    IF s.char \in {" ", "\t"}
    THEN lexer_consume_optional_horizontal_whitespace(input, lexer_read_char(input, s))
    ELSE s

lexer_consume_horizontal_whitespace(input, s) ==
    IF s.char \notin {" ", "\t"} THEN Fatal(s, "Expected horizontal whitespace")
    ELSE lexer_consume_optional_horizontal_whitespace(input, s)

RECURSIVE lexer_consume_until_newline(_, _)
lexer_consume_until_newline(input, s) ==
    IF lexer_is_end_of_line(s.char) THEN s
    ELSE lexer_consume_until_newline(input, lexer_read_char(input, s))

RECURSIVE line_number(_, _, _)
\* lexer_handle_line_directive, lines 288-296: current_line = line - 1.
line_number(input, s, line) ==
    IF isdigit(s.char)
    THEN line_number(input, lexer_read_char(input, s),
                     line * 10 + (IndexOf(DecimalChars, s.char) - 1))
    ELSE [s EXCEPT !.line = line - 1]

\* lexer_handle_line_directive, lines 310-321: the quoted filename.
line_directive_filename(input, s) ==
    LET named == lexer_consume_string_literal(input, s)
        rest == lexer_consume_optional_horizontal_whitespace(
                    input, [named EXCEPT !.filename = named.buffer])
    IN  IF s.char # "\"" THEN Fatal(s, "Filename in #line directive must be double-quoted.")
        ELSE IF named.msg # "" THEN named
        ELSE IF ~lexer_is_end_of_line(rest.char)
        THEN Fatal(rest, "Expected end of line after filename in #line directive")
        ELSE rest

lexer_handle_line_directive(input, s) ==
    LET spaced == lexer_consume_horizontal_whitespace(input, s)
        numbered == line_number(input, spaced, 0)
        after == lexer_consume_horizontal_whitespace(input, numbered)
    IN  IF spaced.msg # "" THEN spaced
        ELSE IF ~isdigit(spaced.char) THEN Fatal(spaced, "Expected line number after #line")
        ELSE IF lexer_is_end_of_line(numbered.char) THEN numbered
        ELSE IF after.msg # "" THEN after
        ELSE IF lexer_is_end_of_line(after.char) THEN after
        ELSE line_directive_filename(input, after)

RECURSIVE directive_command(_, _)
\* lexer_parse_directive, lines 332-336: the letters of the command.
directive_command(input, s) ==
    IF isalpha(s.char)
    THEN directive_command(input, lexer_read_char(input, lexer_buffer_append(s, s.char)))
    ELSE s

lexer_parse_directive(input, s) ==
    LET command == directive_command(input,
                       [lexer_consume_optional_horizontal_whitespace(
                            input, lexer_read_char(input, s)) EXCEPT !.buffer = <<>>])
    IN  IF command.buffer = <<"l", "i", "n", "e">>
        THEN lexer_handle_line_directive(input, command)
        ELSE lexer_consume_until_newline(input, command)

lexer_consume_end_of_line(input, s) ==
    LET r == lexer_read_char(input, [s EXCEPT !.line = s.line + 1])
    IN  IF s.char = "\n" THEN r
        ELSE IF s.char = "\r"
        THEN (IF r.char = "\n" THEN lexer_read_char(input, r) ELSE r)
        ELSE IF s.char = EOF THEN s
        ELSE Fatal(s, "Expected end of line.")

RECURSIVE lexer_consume_whitespace(_, _, _)
\* lexer_consume_whitespace: [s, found_newline].
lexer_consume_whitespace(input, s, found_newline) ==
    IF ~isspace(s.char) THEN [s |-> s, found_newline |-> found_newline]
    ELSE IF s.char \in {"\n", "\r"}
    THEN lexer_consume_whitespace(input, lexer_consume_end_of_line(input, s), TRUE)
    ELSE lexer_consume_whitespace(input, lexer_read_char(input, s), found_newline)

RECURSIVE lexer_consume_whitespace_and_directives(_, _)
lexer_consume_whitespace_and_directives(input, s) ==
    LET w == lexer_consume_whitespace(input, s, FALSE)
        d == lexer_parse_directive(input, w.s)
    IN  IF w.s.char # "#" THEN w.s
        ELSE IF ~w.found_newline
        THEN Fatal(w.s, "A # preprocessor directive can only appear at the start of a line.")
        ELSE IF d.msg # "" THEN d
        ELSE lexer_consume_whitespace_and_directives(input, d)

RECURSIVE alphanumeric_loop(_, _)
\* lexer_consume, lines 445-448.
alphanumeric_loop(input, s) ==
    LET r == lexer_read_char(input, lexer_buffer_append(s, s.char))
    IN  IF lexer_is_alphanumeric(r.char, FALSE) THEN alphanumeric_loop(input, r) ELSE r

RECURSIVE number_loop(_, _)
\* lexer_consume, lines 481-484.
number_loop(input, s) ==
    LET r == lexer_read_char(input, lexer_buffer_append(s, s.char))
    IN  IF isalnum(r.char) \/ r.char = "." THEN number_loop(input, r) ELSE r

\* lexer_consume, lines 492-516: a punctuation token of one to three
\* characters.
punctuation(input, s) ==
    LET c0 == s.char
        r1 == lexer_read_char(input, lexer_buffer_append(s, c0))
        c1 == r1.char
        is_assign == c1 = "=" /\ c0 \in {"+", "-", "*", "/", "%", "&", "|", "^", "!", "<", ">", "="}
        is_double == c0 = c1 /\ c0 \in {"+", "-", "&", "|", "<", ">"}
        is_pointer == c0 = "-" /\ c1 = ">"
        is_variadic == c0 = "." /\ c1 = "."
        r2 == lexer_read_char(input, lexer_buffer_append(r1, c1))
        r3 == IF \/ r2.char = "=" /\ c1 \in {"<", ">"}
                 \/ r2.char = "." /\ c0 = "."
              THEN lexer_read_char(input, lexer_buffer_append(r2, r2.char))
              ELSE r2
    IN  IF is_assign \/ is_double \/ is_pointer \/ is_variadic
        THEN (IF Len(r3.buffer) = 2 /\ c0 = "."
              THEN Fatal(r3, ".. is not a valid token.")
              ELSE r3)
        ELSE r1

\* The token made of the buffer, unless the scan was fatal.
with_token(s, type, line) ==
    IF s.msg # "" THEN s
    ELSE [s EXCEPT !.token = token_new(type, s.buffer, s.filename, line)]

\* lexer_consume, lines 426-524: the next token read from the input.
lexer_scan(input, s) ==
    LET w == lexer_consume_whitespace_and_directives(input, s)
        start == [w EXCEPT !.buffer = <<>>]
        word == alphanumeric_loop(input, start)
    IN  IF w.msg # "" THEN w
        ELSE IF w.char = EOF
        THEN [w EXCEPT !.token = token_new("end", <<>>, w.filename, w.line)]
        ELSE IF lexer_is_alphanumeric(w.char, TRUE)
        THEN (IF word.char \in {"\"", "'"}
              THEN Fatal(word, "String and character literal prefixes are not implemented yet.")
              ELSE with_token(word, "alphanumeric", w.line))
        ELSE IF w.char = "\""
        THEN with_token(lexer_consume_string_literal(input, start), "string", w.line)
        ELSE IF w.char = "'"
        THEN with_token(lexer_consume_char_literal(input, start), "character", w.line)
        ELSE IF isdigit(w.char)
        THEN with_token(number_loop(input, start), "number", w.line)
        ELSE IF w.char \in PunctuationChars
        THEN with_token(punctuation(input, start), "punctuation", w.line)
        ELSE Fatal(w, "Unexpected character")

\* lexer_consume that takes the queued token and leaves it in the queue.
lexer_consume_keeps_queue(input, s, queued) ==
    IF queued # NullToken
    THEN [s |-> [s EXCEPT !.token = queued], queued |-> queued, from_queue |-> TRUE]
    ELSE [s |-> lexer_scan(input, s), queued |-> NullToken, from_queue |-> FALSE]

\* lexer_consume that releases the current token at the end of the input and
\* makes no new one.
lexer_consume_end_released(input, s, queued) ==
    IF queued # NullToken
    THEN [s |-> [s EXCEPT !.token = queued], queued |-> NullToken, from_queue |-> TRUE]
    ELSE IF s.char = EOF
    THEN [s |-> [s EXCEPT !.token = NullToken], queued |-> NullToken, from_queue |-> FALSE]
    ELSE [s |-> lexer_scan(input, s), queued |-> NullToken, from_queue |-> FALSE]

\* lexer_consume: [s, queued, from_queue].
lexer_consume(input, s, queued) ==
    IF queued # NullToken
    THEN [s |-> [s EXCEPT !.token = queued], queued |-> NullToken, from_queue |-> TRUE]
    ELSE [s |-> lexer_scan(input, s), queued |-> NullToken, from_queue |-> FALSE]

\* lexer_push: [msg, queued].
lexer_push(queued, token) ==
    IF queued # NullToken
    THEN [msg |-> "Internal error: At most one token can be queued.", queued |-> queued]
    ELSE [msg |-> "", queued |-> token]

\* The input files: up to MaxLexemes of these pieces, one after the other.
Lexemes ==
    {<<"a">>, <<"1", "a">>, <<"-", ">">>, <<"-", ">", "=">>, <<"=">>, <<">", ">", "=">>,
     <<".", ".">>, <<".", ".", ".">>, <<" ">>, <<"\n">>, <<"#">>,
     <<"#", "l", "i", "n", "e", " ", "7">>, <<"\"", "a", "\"">>, <<"\"", "\\", "n", "\"">>,
     <<"\"", "\\", "0", "\"">>, <<"'", "a", "'">>, <<"@">>}

\* lexer_consume_escape_sequence, lines 164-199: the characters that the
\* switch tells apart, and one that it does not know.
EscapeChars ==
    {"a", "b", "t", "n", "v", "f", "r", "e", "\"", "'", "?", "\\",
     "0", "x", "X", "u", "U", "q"}

\* The input files that hold one string or character literal made of one
\* escape sequence.
EscapeInputs == {<<quote, "\\", c, quote>> : quote \in {"\"", "'"}, c \in EscapeChars}

\* lexer_consume, lines 499-508: the characters that the tests for an
\* operator of two or three characters name, and two that they do not.
OperatorChars == {"+", "-", "<", ">", "=", ".", "&", "!", "~", "("}

\* The input files made of punctuation only: every one of one or two
\* characters, and those of three characters of OperatorChars.
PunctuationInputs ==
    [1..1 -> PunctuationChars] \cup [1..2 -> PunctuationChars] \cup [1..3 -> OperatorChars]

RECURSIVE Inputs(_)
Inputs(n) ==
    IF n = 0 THEN {<<>>}
    ELSE Inputs(n - 1) \cup {i \o l : i \in Inputs(n - 1), l \in Lexemes}

\* The name of the input file given to lexer_init.
InputFilename == <<"a", ".", "i">>

\* lexer_init, lines 123-127: line 1, and a newline as the current character.
InitialScanner ==
    [pos |-> 0, char |-> "\n", line |-> 1, filename |-> InputFilename,
     buffer |-> <<>>, token |-> NullToken, msg |-> ""]

Scanner ==
    [pos |-> lexer_pos, char |-> lexer_char, line |-> current_line,
     filename |-> lexer_filename, buffer |-> lexer_buffer,
     token |-> lexer_token, msg |-> ""]

InitLexer ==
    /\ fatal = ""
    /\ lexer_input \in Inputs(MaxLexemes) \cup EscapeInputs \cup PunctuationInputs
    /\ lexer_pos = 0
    /\ lexer_char = NUL
    /\ current_line = 0
    /\ lexer_filename = <<>>
    /\ lexer_buffer = <<>>
    /\ lexer_token = NullToken
    /\ queued_token = NullToken
    /\ lexer_taken = NullToken
    /\ lexer_scanned = 0
    /\ lexer_ends = 0
    /\ lexer_ops = <<>>
    /\ InitRecordVars
    /\ IdleNumberVars
    /\ IdleStringVars
    /\ IdleConvVars
    /\ IdleCallVars
    /\ IdleDeclVars
    /\ IdleCondVars
    /\ IdleGenVars
    /\ IdleOpcVars
    /\ IdleSpecifiersVars
    /\ IdleGlobalsVars
    /\ IdleEmitVars
    /\ IdleExitVars
    /\ IdleTypesVars
    /\ IdleCmpVars

\* The scanner state is stored back; lexer_scanned counts the tokens other
\* than the end token that were read from the input, lexer_ends the end
\* tokens.
StoreScanner(r, op) ==
    /\ fatal' = r.s.msg
    /\ lexer_pos' = r.s.pos
    /\ lexer_char' = r.s.char
    /\ current_line' = r.s.line
    /\ lexer_filename' = r.s.filename
    /\ lexer_buffer' = r.s.buffer
    /\ lexer_token' = IF r.s.msg = "" THEN r.s.token ELSE lexer_token
    /\ queued_token' = r.queued
    /\ lexer_scanned' =
          IF ~r.from_queue /\ r.s.msg = "" /\ r.s.token.type # "end"
          THEN lexer_scanned + 1 ELSE lexer_scanned
    /\ lexer_ends' =
          IF ~r.from_queue /\ r.s.msg = "" /\ r.s.token.type = "end"
          THEN Min({lexer_ends + 1, MaxEnds}) ELSE lexer_ends
    /\ lexer_ops' = <<IF r.from_queue THEN "consume_queued" ELSE op>>
                    \o SubSeq(lexer_ops, 1, Min({1, Len(lexer_ops)}))

\* lexer_init: the first token is read.
LexerInit ==
    /\ fatal = ""
    /\ lexer_token = NullToken
    /\ StoreScanner(lexer_consume(lexer_input, InitialScanner, queued_token), "init")
    /\ UNCHANGED <<lexer_input, lexer_taken, notLexerVars>>

\* lexer_consume, or lexer_take, whose caller keeps the token that was
\* current.
LexerConsume ==
    /\ fatal = ""
    /\ lexer_token # NullToken
    /\ StoreScanner(lexer_consume(lexer_input, Scanner, queued_token), "consume_input")
    /\ lexer_taken' = lexer_token
    /\ UNCHANGED <<lexer_input, notLexerVars>>

\* lexer_push of the current token or of the token taken last.
LexerPush ==
    /\ fatal = ""
    /\ lexer_token # NullToken
    /\ \E token \in {lexer_token, lexer_taken} \ {NullToken} :
          /\ fatal' = lexer_push(queued_token, token).msg
          /\ queued_token' = lexer_push(queued_token, token).queued
    /\ lexer_ops' = <<"push">> \o SubSeq(lexer_ops, 1, Min({1, Len(lexer_ops)}))
    /\ UNCHANGED <<lexer_input, lexer_pos, lexer_char, current_line, lexer_filename,
                   lexer_buffer, lexer_token, lexer_taken, lexer_scanned, lexer_ends,
                   notLexerVars>>

NextLexer == LexerInit \/ LexerConsume \/ LexerPush

SpecLexer == InitLexer /\ [][NextLexer]_vars

RECURSIVE ScanTimes(_, _, _)
ScanTimes(input, s, n) ==
    IF n = 0 \/ s.msg # "" THEN s ELSE ScanTimes(input, lexer_scan(input, s), n - 1)

\* The n-th token of the input when it is read without any push.
InputToken(input, n) == ScanTimes(input, InitialScanner, n).token

C10_Step ==
    /\ (lexer_ops'[1] = "consume_queued") <=>
          (lexer_ops'[1] # "push" /\ queued_token # NullToken)
    /\ lexer_ops'[1] = "consume_queued" =>
          /\ lexer_token' = queued_token
          /\ queued_token' = NullToken
          /\ lexer_pos' = lexer_pos
          /\ lexer_char' = lexer_char
          /\ fatal' = ""
    /\ lexer_ops'[1] = "consume_input" /\ fatal' = "" =>
          /\ lexer_token' = InputToken(lexer_input, lexer_scanned + 1)
          /\ queued_token' = NullToken
    /\ lexer_ops'[1] = "push" =>
          /\ lexer_pos' = lexer_pos
          /\ lexer_char' = lexer_char
          /\ lexer_token' = lexer_token
          /\ IF queued_token # NullToken
             THEN /\ fatal' = "Internal error: At most one token can be queued."
                  /\ queued_token' = queued_token
             ELSE /\ fatal' = ""
                  /\ queued_token' \in {lexer_token, lexer_taken} \ {NullToken}

\* C10: the lexer_consume that follows a lexer_push makes the pushed token the
\* current token, reads no input character and empties the queue; the
\* lexer_consume after that gives the next token of the input, as if nothing
\* had been pushed; a lexer_push while a token is queued is fatal.
C10_PushBack == [][C10_Step]_vars

\* A token was taken and pushed back, the next lexer_consume made it current
\* again, and the lexer_consume after that has read the next token.
C10_Witness ==
    /\ fatal = ""
    /\ lexer_ops = <<"consume_input", "consume_queued">>
    /\ lexer_taken # NullToken
    /\ lexer_taken.type # "end"
    /\ lexer_token = InputToken(lexer_input, lexer_scanned)
    /\ lexer_token.type = "punctuation"
    /\ lexer_token # lexer_taken
    /\ queued_token = NullToken

\* token.h: the types of token the lexer makes.
TokenTypes == {"alphanumeric", "number", "character", "string", "punctuation", "end"}

ValidToken(token) ==
    /\ token # NullToken
    /\ token.type \in TokenTypes
    /\ token.filename # <<>>
    /\ (token.type = "end") => (token.value = <<>>)
    /\ (token.type \notin {"end", "string"}) => (token.value # <<>>)

C11_Current ==
    (lexer_ops'[1] \in {"init", "consume_input", "consume_queued"} /\ fatal' = "")
        => ValidToken(lexer_token')

C11_StepOriginal ==
    /\ C11_Current
    /\ (lexer_ends >= 1 /\ lexer_ops'[1] \in {"consume_input", "consume_queued"} /\ fatal' = "")
          => lexer_token'.type = "end"

C11_Step ==
    /\ C11_Current
    /\ (lexer_ends >= 1 /\ lexer_ops'[1] = "consume_input" /\ fatal' = "")
          => lexer_token'.type = "end"
    /\ (lexer_ops'[1] = "consume_queued") => (lexer_token' = queued_token)

\* C11 as stated: after lexer_init and after every lexer_consume that is not
\* fatal the current token is a valid token, and once the end token has been
\* read every further lexer_consume gives an end token.
C11_EndAfterEveryConsume == [][C11_StepOriginal]_vars

\* C11: after lexer_init and after every lexer_consume that is not fatal the
\* current token is a valid token; once the end token has been read, every
\* further lexer_consume that finds no queued token gives an end token again,
\* and one that finds a queued token makes that token the current one.
C11_EndAfterConsumeOfInput == [][C11_Step]_vars

\* The end token was read, and a further lexer_consume of the input gave an
\* end token again.
C11_Witness ==
    /\ fatal = ""
    /\ lexer_ends >= 2
    /\ lexer_scanned >= 1
    /\ lexer_ops[1] = "consume_input"
    /\ lexer_token.type = "end"

\* The byte that C12 gives to the escape made of a backslash and c.
C12_Byte(c) ==
    CASE c = "0" -> NUL
      [] c = "a" -> "BEL"
      [] c = "b" -> "BS"
      [] c = "t" -> "\t"
      [] c = "n" -> "\n"
      [] c = "v" -> "VT"
      [] c = "f" -> "\f"
      [] c = "r" -> "\r"
      [] c = "e" -> "ESC"
      [] OTHER -> c

C12_Supported == {"0", "a", "b", "t", "n", "v", "f", "r", "e", "\"", "'", "?", "\\"}

\* C12: in a string or character literal the escape \0 gives a token byte of
\* value zero, each of \a \b \t \n \v \f \r \e \" \' \? \\ gives its
\* traditional byte, and \x and \u are fatal with the message of an
\* unsupported escape.
C12_EscapeBytes ==
    \A quote \in {"\"", "'"}, c \in C12_Supported \cup {"x", "u"} :
        (lexer_input = <<quote, "\\", c, quote>> /\ lexer_ops = <<"init">>) =>
            IF c \in C12_Supported
            THEN /\ fatal = ""
                 /\ lexer_token.type = (IF quote = "'" THEN "character" ELSE "string")
                 /\ lexer_token.value = <<C12_Byte(c)>>
            ELSE fatal \in {"Hexadecimal escape sequences are not supported in opC.",
                            "Unicode escape sequences are not supported in opC."}

\* C12 without the escape \0.
C12_EscapeBytesButZero ==
    \A quote \in {"\"", "'"}, c \in (C12_Supported \ {"0"}) \cup {"x", "u"} :
        (lexer_input = <<quote, "\\", c, quote>> /\ lexer_ops = <<"init">>) =>
            IF c \in C12_Supported
            THEN /\ fatal = ""
                 /\ lexer_token.type = (IF quote = "'" THEN "character" ELSE "string")
                 /\ lexer_token.value = <<C12_Byte(c)>>
            ELSE fatal \in {"Hexadecimal escape sequences are not supported in opC.",
                            "Unicode escape sequences are not supported in opC."}

\* The string literal made of the escape \0 was read, and lexer_init was fatal.
C12_ZeroEscapeFatal ==
    /\ lexer_input = <<"\"", "\\", "0", "\"">>
    /\ lexer_ops = <<"init">>
    /\ fatal = "Octal escape sequences are not yet supported."

\* The operators that C13 lists.
C13_Operators ==
    {<<c>> : c \in PunctuationChars}
    \cup {<<c, "=">> : c \in {"+", "-", "*", "/", "%", "&", "|", "^", "!", "<", ">", "="}}
    \cup {<<c, c>> : c \in {"<", ">", "+", "-", "&", "|", "."}}
    \cup {<<"-", ">">>}
    \cup {<<"<", "<", "=">>, <<">", ">", "=">>, <<".", ".", ".">>}

\* The longest prefix of the input that is a listed operator.
C13_LongestOperator(input) ==
    LET lengths == {n \in 1..Min({3, Len(input)}) : SubSeq(input, 1, n) \in C13_Operators}
        longest == CHOOSE n \in lengths : \A k \in lengths : k <= n
    IN  SubSeq(input, 1, longest)

\* C13: for an input that starts with a punctuation character the token that
\* lexer_init reads is the longest prefix that is a listed operator, and it
\* is fatal if that prefix is the two dots; no punctuation token is outside
\* the list.
C13_LongestMatch ==
    /\ (lexer_ops = <<"init">> /\ lexer_input # <<>> /\ lexer_input[1] \in PunctuationChars) =>
          IF C13_LongestOperator(lexer_input) = <<".", ".">>
          THEN fatal = ".. is not a valid token."
          ELSE /\ fatal = ""
               /\ lexer_token.type = "punctuation"
               /\ lexer_token.value = C13_LongestOperator(lexer_input)
    /\ lexer_token.type = "punctuation" => lexer_token.value \in C13_Operators

\* The input -> followed by = was read as one token of three characters.
C13_PointerAssign ==
    /\ lexer_ops = <<"init">>
    /\ Len(lexer_input) >= 3
    /\ SubSeq(lexer_input, 1, 3) = <<"-", ">", "=">>
    /\ fatal = ""
    /\ lexer_token.value = <<"-", ">", "=">>

\* C13 for the inputs that do not start with -> followed by =.
C13_LongestMatchButPointerAssign ==
    (SubSeq(lexer_input, 1, Min({3, Len(lexer_input)})) # <<"-", ">", "=">>
     /\ lexer_token.value # <<"-", ">", "=">>) => C13_LongestMatch

\* The definitions emitted for the label index.
C14_Definitions(labels, index) == {i \in 1..Len(labels) : labels[i].index = index}

C14_Step ==
    /\ (current_function.is_null /\ ~current_function'.is_null)
          => current_function'.name_label = -1
    /\ (~current_function.is_null /\ ~current_function'.is_null
        /\ current_function.name_label = -1 /\ current_function'.name_label # -1)
          => /\ current_function'.name_label = next_string
             /\ next_string' = next_string + 1
             /\ string_labels' = Append(string_labels,
                    [index |-> next_string, by |-> "parse_builtin_func"])
             /\ string_node' = next_string
    /\ (~current_function.is_null /\ ~current_function'.is_null
        /\ current_function.name_label # -1)
          => /\ current_function'.name_label = current_function.name_label
             /\ C14_Definitions(string_labels', current_function.name_label)
                   = C14_Definitions(string_labels, current_function.name_label)
             /\ Cardinality(C14_Definitions(string_labels', current_function.name_label)) = 1
             /\ (next_string' = next_string)
                   => /\ string_labels' = string_labels
                      /\ string_node' = current_function.name_label

\* C14: a new function starts with name_label = -1; the first __func__ of a
\* function takes the label next_string, emits one definition for it and
\* stores it in name_label; every later __func__ of the function emits
\* nothing and its node carries that label, which keeps exactly one
\* definition.
C14_FuncLabelOnce == [][C14_Step]_vars

\* Inside a function __func__ took label 0, a string literal took label 1,
\* and a later __func__ gave a node with label 0 and emitted nothing.
C14_Witness ==
    /\ fatal = ""
    /\ ~current_function.is_null
    /\ current_function.name_label = 0
    /\ string_labels = <<[index |-> 0, by |-> "parse_builtin_func"],
                         [index |-> 1, by |-> "parse_string"]>>
    /\ string_node = 0
    /\ next_string = 2

(***************************************************************************)
(* parse_expr.c: parse_conditional_expression                               *)
(*                                                                          *)
(* An operand is a node [type, is_null]; is_null tells the integer constant *)
(* 0.  A type holds its declarator, its base (of the pointee or element for *)
(* a pointer or array), its own qualifiers and, for a pointer or array, the *)
(* qualifiers of the pointee or element.                                    *)
(***************************************************************************)

Qualifiers == {"const", "volatile"}

cond_type(declarator, base, qualifiers, ref_qualifiers) ==
    [declarator |-> declarator, base |-> base, qualifiers |-> qualifiers,
     ref_qualifiers |-> ref_qualifiers]

CondPointerTypes ==
    {cond_type("pointer", base, qualifiers, ref_qualifiers) :
        base \in {"signed_int", "void"},
        qualifiers \in {{}, {"const"}},
        ref_qualifiers \in SUBSET Qualifiers}

CondArrayTypes ==
    {cond_type("array", "signed_int", {}, ref_qualifiers) :
        ref_qualifiers \in {{}, {"const"}}}

CondBaseTypes ==
    {cond_type("none", base, {}, {}) :
        base \in {"signed_int", "char", "double", "record", "enum", "void"}}

\* The operands of a conditional expression: a node of each type, and the
\* null pointer constant 0.
CondNodes ==
    {[type |-> type, is_null |-> FALSE] :
        type \in CondPointerTypes \cup CondArrayTypes \cup CondBaseTypes}
    \cup {[type |-> cond_type("none", "signed_int", {}, {}), is_null |-> TRUE]}

\* node_decay: an array becomes a pointer to its first element.
node_decay(node) ==
    IF node.type.declarator = "array"
    THEN [node EXCEPT !.type = cond_type("pointer", node.type.base, {},
                                         node.type.ref_qualifiers)]
    ELSE node

type_is_indirection(type) == type.declarator \in {"pointer", "array"}

\* type_equal_unqual: the types are equal once every qualifier is dropped.
type_equal_unqual(left, right) ==
    left.declarator = right.declarator /\ left.base = right.base

\* type_is_arithmetic: an integer or floating point type; an enum is handled
\* by its own test.
type_is_arithmetic(type) ==
    type.declarator = "none" /\ type.base \in ArithmeticBases \ {"enum"}

node_is_null(node) == node.is_null

\* parse_conditional_expression_types, lines 1060-1086: a side is a pointer.
conditional_pointer_types(left, right) ==
    LET left_is_ptr == type_is_indirection(left.type)
        ptr == IF left_is_ptr THEN left ELSE right
        other == IF left_is_ptr THEN right ELSE left
        cast == [other EXCEPT !.type = node_cast(other.type, ptr.type)]
    IN  IF type_equal_unqual(left.type, right.type)
        THEN [msg |-> "", left |-> left, right |-> right]
        ELSE IF \/ node_is_null(other)
                \/ type_is_indirection(other.type) /\ other.type.base = "void"
        THEN [msg |-> "",
              left |-> IF left_is_ptr THEN left ELSE cast,
              right |-> IF left_is_ptr THEN cast ELSE right]
        ELSE [msg |-> "TODO find compatible ptr type", left |-> left, right |-> right]

\* parse_conditional_expression_types, lines 1089-1126: no side is a pointer.
conditional_value_types(left, right) ==
    LET converted == parse_usual_arithmetic_conversions(
                         type_new_base(left.type.base), type_new_base(right.type.base))
        same == [msg |-> "", left |-> left, right |-> right]
        Failed(msg) == [msg |-> msg, left |-> left, right |-> right]
        Is(node, base) == node.type.declarator = "none" /\ node.type.base = base
    IN  IF type_is_arithmetic(left.type) # type_is_arithmetic(right.type)
        THEN Failed("Both or neither side of this conditional expression can be an arithmetic type.")
        ELSE IF type_is_arithmetic(left.type)
        THEN [msg |-> "",
              left |-> [left EXCEPT !.type = cond_type("none", converted.left.base, {}, {})],
              right |-> [right EXCEPT !.type = cond_type("none", converted.right.base, {}, {})]]
        ELSE IF Is(left, "record") # Is(right, "record")
        THEN Failed("Both or neither side of this conditional expression can be a struct or union type.")
        ELSE IF Is(left, "record") THEN same
        ELSE IF Is(left, "enum") # Is(right, "enum")
        THEN Failed("Both or neither side of this conditional expression can be an enum type.")
        ELSE IF Is(left, "enum") THEN same
        ELSE IF Is(left, "void") # Is(right, "void")
        THEN Failed("Both or neither side of this conditional expression can be void.")
        ELSE IF Is(left, "void") THEN same
        ELSE Failed("Incompatible types in conditional expression.")

\* parse_conditional_expression_types: [msg, left, right].
parse_conditional_expression_types(left, right) ==
    LET l == node_decay(left)
        r == node_decay(right)
    IN  IF type_is_indirection(l.type) \/ type_is_indirection(r.type)
        THEN conditional_pointer_types(l, r)
        ELSE conditional_value_types(l, r)

\* parse_conditional_expression, lines 1147-1155: [msg, left, right, type];
\* the conditional takes the type of its second operand.
parse_conditional_expression(left, right) ==
    LET r == parse_conditional_expression_types(left, right)
    IN  [msg |-> r.msg, left |-> r.left, right |-> r.right, type |-> r.left.type]

InitCond ==
    /\ fatal = ""
    /\ cond_operands \in CondNodes \X CondNodes
    /\ cond_left = cond_operands[1]
    /\ cond_right = cond_operands[2]
    /\ cond_result = NoType
    /\ InitRecordVars
    /\ IdleNumberVars
    /\ IdleStringVars
    /\ IdleConvVars
    /\ IdleCallVars
    /\ IdleDeclVars
    /\ IdleLexerVars
    /\ IdleGenVars
    /\ IdleOpcVars
    /\ IdleSpecifiersVars
    /\ IdleGlobalsVars
    /\ IdleEmitVars
    /\ IdleExitVars
    /\ IdleTypesVars
    /\ IdleCmpVars

\* A conditional expression whose second and third operands were parsed.
ParseConditionalExpression ==
    /\ fatal = ""
    /\ cond_result = NoType
    /\ LET r == parse_conditional_expression(cond_left, cond_right)
       IN  /\ fatal' = r.msg
           /\ IF r.msg = ""
              THEN /\ cond_left' = r.left
                   /\ cond_right' = r.right
                   /\ cond_result' = r.type
              ELSE UNCHANGED <<cond_left, cond_right, cond_result>>
    /\ UNCHANGED <<cond_operands, notCondVars>>

NextCond == ParseConditionalExpression

SpecCond == InitCond /\ [][NextCond]_vars

\* The operands are pointers whose types are equal once qualifiers are
\* dropped.
C15_Case ==
    /\ type_is_indirection(node_decay(cond_operands[1]).type)
    /\ type_is_indirection(node_decay(cond_operands[2]).type)
    /\ type_equal_unqual(node_decay(cond_operands[1]).type,
                         node_decay(cond_operands[2]).type)

\* C15: for two pointer operands whose types are equal once qualifiers are
\* dropped, the pointee of the result type has the qualifiers of both
\* pointees, whichever operand comes second and which third.
C15_QualifierUnion ==
    (C15_Case /\ cond_result # NoType) =>
        /\ fatal = ""
        /\ cond_result.declarator = "pointer"
        /\ cond_result.base = node_decay(cond_operands[1]).type.base
        /\ cond_result.ref_qualifiers =
              node_decay(cond_operands[1]).type.ref_qualifiers
              \cup node_decay(cond_operands[2]).type.ref_qualifiers

\* What the code gives in the case of C15: the type of the second operand.
C15_TypeOfSecondOperand ==
    (C15_Case /\ cond_result # NoType) =>
        /\ fatal = ""
        /\ cond_result = node_decay(cond_operands[1]).type

\* c ? p : q with int *p and const int *q has the type int *.
C15_ConstLost ==
    /\ cond_operands[1].type = cond_type("pointer", "signed_int", {}, {})
    /\ cond_operands[2].type = cond_type("pointer", "signed_int", {}, {"const"})
    /\ cond_result = cond_type("pointer", "signed_int", {}, {})

(***************************************************************************)
(* generate_ops.c: code generation of binary operators and assignment       *)
(*                                                                          *)
(* A node holds its kind, its type and the types of its two children.  A    *)
(* type holds its declarator, its base, its size (type_size) and, for a     *)
(* pointer, the size of the pointed-to type (type_size of ref).  An         *)
(* instruction of the block holds the opcode, the numeric arguments and the *)
(* label or the child it refers to.  The code of a child is one             *)
(* generate_node or generate_location entry.                                *)
(***************************************************************************)

\* Bound of the generator model: the largest size of a pointed-to type.
MaxSize == 260

\* Bound of the generator model: the highest register a node is generated in.
MaxRegister == 2

\* The operand of an instruction is a register or an immediate: the registers
\* are the values R0 .. R0 + 15 of the operand byte, and an immediate is in
\* -112 .. 127.
R0 == 128
R1 == R0 + 1
RSP == R0 + 12

gen_type(declarator, base, size, ref_size) ==
    [declarator |-> declarator, base |-> base, size |-> size, ref_size |-> ref_size]

GenInt == gen_type("none", "signed_int", 4, 0)
GenPointer(ref_size) == gen_type("pointer", "signed_int", 4, ref_size)

\* The types of an arithmetic node: the integer types after promotion, and
\* float and double.
GenArithmeticTypes ==
    {gen_type("none", "signed_int", 4, 0), gen_type("none", "unsigned_int", 4, 0),
     gen_type("none", "signed_long_long", 8, 0), gen_type("none", "unsigned_long_long", 8, 0),
     gen_type("none", "float", 4, 0), gen_type("none", "double", 8, 0)}

\* The types of an assignment: char, short, int, a pointer, long long, and
\* structs of 4, 8 and 12 bytes.
GenAssignTypes ==
    {gen_type("none", "char", 1, 0), gen_type("none", "signed_short", 2, 0),
     GenInt, GenPointer(1), gen_type("none", "signed_long_long", 8, 0),
     gen_type("none", "record", 4, 0), gen_type("none", "record", 8, 0),
     gen_type("none", "record", 12, 0)}

gen_node_new(kind, type, first, last) ==
    [kind |-> kind, type |-> type, first_child |-> first, last_child |-> last]

GenNodes ==
    {gen_node_new(kind, type, type, type) :
        kind \in {"add", "sub", "mul", "div", "mod", "shl", "shr", "bit_or"},
        type \in {t \in GenArithmeticTypes : t.base \notin {"float", "double"}}}
    \cup {gen_node_new(kind, type, type, type) :
        kind \in {"add", "sub", "mul", "div"},
        type \in {t \in GenArithmeticTypes : t.base \in {"float", "double"}}}
    \cup {gen_node_new(kind, GenPointer(size), GenPointer(size), GenInt) :
        kind \in {"add", "sub"}, size \in 1..MaxSize}
    \cup {gen_node_new("add", GenPointer(size), GenInt, GenPointer(size)) :
        size \in 1..MaxSize}
    \cup {gen_node_new("sub", GenInt, GenPointer(size), GenPointer(size)) :
        size \in 1..MaxSize}
    \cup {gen_node_new("assign", type, type, type) : type \in GenAssignTypes}

\* block_add: an instruction is appended to the current block.
block_add(block, op, args, label) ==
    Append(block, [op |-> op, args |-> args, label |-> label])

\* generate_node: the code that leaves the value of the child in the register.
generate_node(block, child, register_num) ==
    block_add(block, "generate_node", <<register_num>>, child)

\* generate_location: the code that leaves the address of the child in the
\* register.
generate_location(block, child, register_num) ==
    block_add(block, "generate_location", <<register_num>>, child)

\* generate_register_push: the registers of the model are below the
\* high-water mark, where nothing is pushed.
generate_register_push(register_num) == [pushed |-> FALSE, register_num |-> register_num]

\* is_pow2: the size is a power of two.
is_pow2(size) == \E k \in 0..30 : size = 2 ^ k

RECURSIVE shift_loop(_, _)
\* generate_pointer_add_sub, lines 129-133: while (size) { size >>= 1; ++shift; }
shift_loop(size, shift) ==
    IF size # 0 THEN shift_loop(size \div 2, shift + 1) ELSE shift

\* generate_binary_function, lines 41-43: PUSH of the registers below
\* register_num, the highest first.
push_down(block, i) ==
    block \o [k \in 1..(IF i > R0 THEN i - R0 ELSE 0) |->
                [op |-> "PUSH", args |-> <<i - k>>, label |-> ""]]

\* generate_binary_function, lines 68-70: PUSH of the operands from i up to
\* register_num, the lowest first.
push_up(block, i, register_num) ==
    block \o [k \in 1..(IF i < register_num THEN register_num - i ELSE 0) |->
                [op |-> "PUSH", args |-> <<i + k - 1>>, label |-> ""]]

generate_binary_function(block, node, register_num, function_name) ==
    LET size == node.type.size
        pushed == push_down(block, register_num)
        moved == IF size # 4 /\ register_num # R0
                 THEN block_add(pushed, "MOV", <<R0, register_num>>, "")
                 ELSE pushed
        room == IF size # 4
                THEN block_add(block_add(moved, "SUB", <<RSP, RSP, size>>, ""),
                               "MOV", <<R1, RSP>>, "")
                ELSE moved
        arguments == generate_node(generate_node(room, "first_child", R0), "last_child", R1)
        called == block_add(arguments, "CALL", <<>>, function_name)
        returned == IF register_num # R0
                    THEN block_add(called, "MOV", <<register_num, R0>>, "")
                    ELSE called
        popped == push_up(returned, 0, register_num)
    IN  IF size # 4 THEN block_add(popped, "ADD", <<RSP, RSP, 8>>, "") ELSE popped

\* generate_simple_arithmetic: the three function names it is given are not
\* read.
generate_simple_arithmetic(block, node, register_num, opcode, llong_func, float_func, double_func) ==
    LET r == generate_register_push(register_num).register_num
        function == IF type_is_long_long(node.type.base) THEN "__llong_add"
                    ELSE IF node.type.base = "float" THEN "__float_add"
                    ELSE IF node.type.base = "double" THEN "__double_add"
                    ELSE ""
    IN  IF function # ""
        THEN generate_binary_function(block, node, r, function)
        ELSE block_add(generate_node(generate_node(block, "first_child", r),
                                     "last_child", r + 1),
                       opcode, <<r, r, r + 1>>, "")

generate_pointer_add_sub(block, node, register_num) ==
    LET r == generate_register_push(register_num).register_num
        sides == generate_node(generate_node(block, "first_child", r), "last_child", r + 1)
        is_left_ptr == type_is_indirection(node.first_child)
        ptr_type == IF is_left_ptr THEN node.first_child ELSE node.last_child
        size == ptr_type.ref_size
        int_register == IF is_left_ptr THEN r + 1 ELSE r
        r2 == generate_register_push(r).register_num
        scaled ==
            IF size = 1 THEN sides
            ELSE IF is_pow2(size)
            THEN block_add(sides, "SHL",
                           <<int_register, int_register, shift_loop(size, 0) - 1>>, "")
            ELSE IF size < 128
            THEN block_add(sides, "MUL", <<int_register, int_register, size>>, "")
            ELSE block_add(block_add(sides, "IMW", <<r2 + 2, size>>, ""),
                           "MUL", <<int_register, int_register, r2 + 2>>, "")
    IN  block_add(scaled, IF node.kind = "add" THEN "ADD" ELSE "SUB", <<r, r, r + 1>>, "")

\* generate_pointers_sub with the limit of the immediate read as decimal 80.
generate_pointers_sub_decimal_limit(block, node, register_num) ==
    LET r == generate_register_push(register_num).register_num
        sides == generate_node(generate_node(block, "first_child", r), "last_child", r + 1)
        subtracted == block_add(sides, "SUB", <<r, r, r + 1>>, "")
        size == node.first_child.ref_size
    IN  IF size = 1 THEN subtracted
        ELSE IF is_pow2(size)
        THEN block_add(subtracted, "SHRS", <<r, r, shift_loop(size, 0) - 1>>, "")
        ELSE IF size < 80
        THEN block_add(subtracted, "DIVS", <<r, r, size>>, "")
        ELSE block_add(block_add(subtracted, "IMW", <<r + 1, size>>, ""),
                       "DIVS", <<r, r, r + 1>>, "")

generate_pointers_sub(block, node, register_num) ==
    LET r == generate_register_push(register_num).register_num
        sides == generate_node(generate_node(block, "first_child", r), "last_child", r + 1)
        subtracted == block_add(sides, "SUB", <<r, r, r + 1>>, "")
        size == node.first_child.ref_size
    IN  IF size = 1 THEN subtracted
        ELSE IF is_pow2(size)
        THEN block_add(subtracted, "SHRS", <<r, r, shift_loop(size, 0) - 1>>, "")
        ELSE IF size < 128
        THEN block_add(subtracted, "DIVS", <<r, r, size>>, "")
        ELSE block_add(block_add(subtracted, "IMW", <<r + 1, size>>, ""),
                       "DIVS", <<r, r, r + 1>>, "")

generate_add(block, node, register_num) ==
    IF type_is_indirection(node.type)
    THEN generate_pointer_add_sub(block, node, register_num)
    ELSE generate_simple_arithmetic(block, node, register_num, "ADD",
                                    "__llong_add", "__float_add", "__double_add")

generate_sub(block, node, register_num) ==
    IF type_is_indirection(node.type)
    THEN generate_pointer_add_sub(block, node, register_num)
    ELSE IF type_is_indirection(node.first_child)
    THEN generate_pointers_sub(block, node, register_num)
    ELSE generate_simple_arithmetic(block, node, register_num, "SUB",
                                    "__llong_sub", "__float_sub", "__double_sub")

\* generate_mul, generate_div, generate_mod, generate_shl, generate_shr and
\* generate_bit_or; "" is the NULL function name.
generate_operator(block, node, register_num) ==
    LET signed == type_is_signed_integer(node.type)
        Simple(opcode, llong_func, float_func, double_func) ==
            generate_simple_arithmetic(block, node, register_num, opcode,
                                       llong_func, float_func, double_func)
    IN  CASE node.kind = "mul" -> Simple("MUL", "__llong_mul", "__float_mul", "__double_mul")
          [] node.kind = "div" /\ signed -> Simple("DIVS", "__llong_divs", "", "")
          [] node.kind = "div" /\ ~signed ->
                Simple("DIVU", "__llong_divu", "__float_div", "__double_div")
          [] node.kind = "mod" /\ signed -> Simple("MODS", "__llong_mods", "", "")
          [] node.kind = "mod" /\ ~signed ->
                Simple("MODU", "__llong_modu", "__float_mod", "__double_mod")
          [] node.kind = "shl" -> Simple("SHL", "__llong_shl", "", "")
          [] node.kind = "shr" /\ signed -> Simple("SHRS", "__llong_shrs", "", "")
          [] node.kind = "shr" /\ ~signed -> Simple("SHRU", "__llong_shru", "", "")
          [] node.kind = "bit_or" -> Simple("OR", "__llong_bit_or", "", "")

\* generate_store: [msg, block].
generate_store(block, type, register_location, register_value) ==
    CASE type.size = 1 ->
            [msg |-> "", block |-> block_add(block, "STB", <<register_value, 0, register_location>>, "")]
      [] type.size = 2 ->
            [msg |-> "", block |-> block_add(block, "STS", <<register_value, 0, register_location>>, "")]
      [] type.size = 4 ->
            [msg |-> "", block |-> block_add(block, "STW", <<register_value, 0, register_location>>, "")]
      [] OTHER -> [msg |-> "large assign not yet implemented", block |-> block]

\* generate_assign: [msg, block].
generate_assign(block, node, register_num) ==
    LET r == generate_register_push(register_num).register_num
        value == generate_node(block, "last_child", r)
        location == generate_location(value, "first_child", r + 1)
    IN  generate_store(location, node.type, r + 1, r)

InitGen ==
    /\ fatal = ""
    /\ gen_node \in GenNodes
    /\ gen_register \in R0..(R0 + MaxRegister)
    /\ gen_block = <<>>
    /\ gen_done = FALSE
    /\ InitRecordVars
    /\ IdleNumberVars
    /\ IdleStringVars
    /\ IdleConvVars
    /\ IdleCallVars
    /\ IdleDeclVars
    /\ IdleLexerVars
    /\ IdleCondVars
    /\ IdleOpcVars
    /\ IdleSpecifiersVars
    /\ IdleGlobalsVars
    /\ IdleEmitVars
    /\ IdleExitVars
    /\ IdleTypesVars
    /\ IdleCmpVars

\* The node is generated into the register: the generate function of its
\* kind is called.
GenerateNode ==
    /\ fatal = ""
    /\ ~gen_done
    /\ LET r == CASE gen_node.kind = "add" ->
                        [msg |-> "", block |-> generate_add(gen_block, gen_node, gen_register)]
                  [] gen_node.kind = "sub" ->
                        [msg |-> "", block |-> generate_sub(gen_block, gen_node, gen_register)]
                  [] gen_node.kind = "assign" ->
                        generate_assign(gen_block, gen_node, gen_register)
                  [] OTHER ->
                        [msg |-> "", block |-> generate_operator(gen_block, gen_node, gen_register)]
       IN  /\ fatal' = r.msg
           /\ gen_block' = r.block
    /\ gen_done' = TRUE
    /\ UNCHANGED <<gen_node, gen_register, notGenVars>>

NextGen == GenerateNode

SpecGen == InitGen /\ [][NextGen]_vars

\* The runtime helper of the operator and the type, as C16 names it.
C16_Helper(kind, type) ==
    LET prefix == IF type_is_long_long(type.base) THEN "llong" ELSE type.base
        signed == type_is_signed_integer(type)
        long == type_is_long_long(type.base)
    IN  CASE kind = "add" -> <<prefix, "add">>
          [] kind = "sub" -> <<prefix, "sub">>
          [] kind = "mul" -> <<prefix, "mul">>
          [] kind = "div" -> <<prefix, IF long THEN (IF signed THEN "divs" ELSE "divu") ELSE "div">>
          [] kind = "mod" -> <<prefix, IF signed THEN "mods" ELSE "modu">>
          [] kind = "shl" -> <<prefix, "shl">>
          [] kind = "shr" -> <<prefix, IF signed THEN "shrs" ELSE "shru">>
          [] kind = "bit_or" -> <<prefix, "bit_or">>

\* The helper that a label names: its type and its operator.
C16_Named(label) ==
    CHOOSE h \in {"llong", "float", "double"}
                 \X {"add", "sub", "mul", "div", "divs", "divu", "mods", "modu",
                     "shl", "shrs", "shru", "bit_or"} :
        label = CASE h[1] = "llong" /\ h[2] = "add" -> "__llong_add"
                  [] h[1] = "llong" /\ h[2] = "sub" -> "__llong_sub"
                  [] h[1] = "llong" /\ h[2] = "mul" -> "__llong_mul"
                  [] h[1] = "llong" /\ h[2] = "divs" -> "__llong_divs"
                  [] h[1] = "llong" /\ h[2] = "divu" -> "__llong_divu"
                  [] h[1] = "llong" /\ h[2] = "mods" -> "__llong_mods"
                  [] h[1] = "llong" /\ h[2] = "modu" -> "__llong_modu"
                  [] h[1] = "llong" /\ h[2] = "shl" -> "__llong_shl"
                  [] h[1] = "llong" /\ h[2] = "shrs" -> "__llong_shrs"
                  [] h[1] = "llong" /\ h[2] = "shru" -> "__llong_shru"
                  [] h[1] = "llong" /\ h[2] = "bit_or" -> "__llong_bit_or"
                  [] h[1] = "float" /\ h[2] = "add" -> "__float_add"
                  [] h[1] = "float" /\ h[2] = "sub" -> "__float_sub"
                  [] h[1] = "float" /\ h[2] = "mul" -> "__float_mul"
                  [] h[1] = "float" /\ h[2] = "div" -> "__float_div"
                  [] h[1] = "double" /\ h[2] = "add" -> "__double_add"
                  [] h[1] = "double" /\ h[2] = "sub" -> "__double_sub"
                  [] h[1] = "double" /\ h[2] = "mul" -> "__double_mul"
                  [] h[1] = "double" /\ h[2] = "div" -> "__double_div"
                  [] OTHER -> ""

\* The node is an arithmetic node of type long long, float or double, and it
\* has been generated.
C16_Case ==
    /\ gen_done
    /\ gen_node.kind \in {"add", "sub", "mul", "div", "mod", "shl", "shr", "bit_or"}
    /\ gen_node.type.declarator = "none"
    /\ gen_node.first_child.declarator = "none"
    /\ gen_node.type.base \in {"signed_long_long", "unsigned_long_long", "float", "double"}

\* The CALL instructions of the block.
GenCalls == {i \in 1..Len(gen_block) : gen_block[i].op = "CALL"}

\* C16: for an arithmetic node of type long long, float or double the block
\* holds one CALL, and it names the runtime helper of the node's own operator
\* and type.
C16_HelperOfOperator ==
    C16_Case =>
        /\ fatal = ""
        /\ Cardinality(GenCalls) = 1
        /\ \A i \in GenCalls :
              C16_Named(gen_block[i].label) = C16_Helper(gen_node.kind, gen_node.type)

\* What the code does in the case of C16: the CALL names the helper of the
\* addition of the node's type.
C16_HelperOfAddition ==
    C16_Case =>
        /\ fatal = ""
        /\ Cardinality(GenCalls) = 1
        /\ \A i \in GenCalls :
              C16_Named(gen_block[i].label) = C16_Helper("add", gen_node.type)

\* A subtraction of type long long has been generated with a CALL of
\* __llong_add.
C16_SubCallsAdd ==
    /\ C16_Case
    /\ gen_node.kind = "sub"
    /\ type_is_long_long(gen_node.type.base)
    /\ \E i \in GenCalls : gen_block[i].label = "__llong_add"

\* The node adds an integer to a pointer or subtracts it (generate_pointer_add_sub).
C17_PointerAddSub ==
    gen_node.kind \in {"add", "sub"} /\ type_is_indirection(gen_node.type)

\* The node subtracts two pointers (generate_pointers_sub).
C17_PointersSub ==
    /\ gen_node.kind = "sub"
    /\ ~type_is_indirection(gen_node.type)
    /\ type_is_indirection(gen_node.first_child)

\* The size of the pointed-to type.
C17_Size ==
    IF type_is_indirection(gen_node.first_child)
    THEN gen_node.first_child.ref_size ELSE gen_node.last_child.ref_size

\* The register that is scaled: the integer operand, or the difference.
C17_Scaled ==
    IF C17_PointerAddSub /\ type_is_indirection(gen_node.first_child)
    THEN gen_register + 1 ELSE gen_register

\* The instructions between the code of the operands and the addition or
\* subtraction of a pointer and an integer; those after the subtraction of
\* two pointers.
C17_Scaling ==
    IF C17_PointersSub
    THEN SubSeq(gen_block, 4, Len(gen_block))
    ELSE SubSeq(gen_block, 3, Len(gen_block) - 1)

Log2(size) == CHOOSE k \in 0..30 : 2 ^ k = size

IsPowerOfTwo(size) == \E k \in 0..30 : 2 ^ k = size

\* C17: in generate_pointer_add_sub and generate_pointers_sub, for the size s
\* of the pointed-to type: nothing scales for s = 1; for a power of two above
\* 1 the integer operand is shifted left, or the difference of the pointers
\* shifted right with SHRS, by log2(s); else for s below 128 it is multiplied
\* with MUL, or divided with DIVS, by the immediate s; else IMW loads s in a
\* scratch register, which is the operand of the MUL or DIVS.
C17_PointerScaling ==
    (gen_done /\ (C17_PointerAddSub \/ C17_PointersSub)) =>
        LET s == C17_Size
            x == C17_Scaled
            shift == IF C17_PointersSub THEN "SHRS" ELSE "SHL"
            scale == IF C17_PointersSub THEN "DIVS" ELSE "MUL"
            scaling == C17_Scaling
        IN  /\ fatal = ""
            /\ IF s = 1 THEN scaling = <<>>
               ELSE IF IsPowerOfTwo(s)
               THEN /\ Len(scaling) = 1
                    /\ scaling[1].op = shift
                    /\ scaling[1].args = <<x, x, Log2(s)>>
               ELSE IF s < 128
               THEN /\ Len(scaling) = 1
                    /\ scaling[1].op = scale
                    /\ scaling[1].args = <<x, x, s>>
               ELSE /\ Len(scaling) = 2
                    /\ scaling[1].op = "IMW"
                    /\ scaling[1].args[2] = s
                    /\ scaling[2].op = scale
                    /\ scaling[2].args = <<x, x, scaling[1].args[1]>>
                    /\ scaling[1].args[1] # x

\* Two pointers to a type of 200 bytes were subtracted: the difference is
\* divided by a register that IMW loaded.
C17_Witness ==
    /\ gen_done
    /\ C17_PointersSub
    /\ C17_Size = 200
    /\ \E i \in 1..Len(gen_block) : gen_block[i].op = "IMW"

\* The instructions of the block with the opcode.
C26_Instructions(op) == {i \in DOMAIN gen_block : gen_block[i].op = op}

RECURSIVE C26_Sum(_)
\* The sum of the third operands of the instructions.
C26_Sum(indices) ==
    IF indices = {} THEN 0
    ELSE LET i == CHOOSE i \in indices : TRUE
         IN  gen_block[i].args[3] + C26_Sum(indices \ {i})

\* The bytes that the instructions with the opcode take from or give to the
\* stack pointer.
C26_RspBytes(op) ==
    C26_Sum({i \in C26_Instructions(op) : gen_block[i].args[1] = RSP})

\* The node has been generated with a call of a runtime helper:
\* generate_binary_function has run.
C26_Case ==
    /\ gen_done
    /\ fatal = ""
    /\ C26_Instructions("CALL") # {}

\* C26: generate_binary_function is stack-balanced for every target register:
\* the block has as many POP as PUSH instructions, and the bytes subtracted
\* from RSP are the bytes added to it.
C26_StackBalanced ==
    C26_Case =>
        /\ Cardinality(C26_Instructions("PUSH")) = Cardinality(C26_Instructions("POP"))
        /\ C26_RspBytes("SUB") = C26_RspBytes("ADD")

\* What the code does: it emits no POP at all, the registers are pushed once
\* before the call and operands are pushed again after it.
C26_NeverPops ==
    C26_Case =>
        /\ C26_Instructions("POP") = {}
        /\ gen_register > R0 => Cardinality(C26_Instructions("PUSH")) > gen_register - R0

\* The temporary of an 8-byte node is balanced: 8 bytes are subtracted and 8
\* bytes are added.
C26_TemporaryBalanced ==
    C26_Case => C26_RspBytes("SUB") = C26_RspBytes("ADD")

\* A long long node generated in the register above R0: R0 is pushed before
\* the call and never popped.
C26_PushedNotPopped ==
    /\ C26_Case
    /\ gen_register = R1
    /\ gen_node.type.size = 8
    /\ \E i \in DOMAIN gen_block : gen_block[i] = [op |-> "PUSH", args |-> <<R0>>, label |-> ""]
    /\ C26_Instructions("POP") = {}

(***************************************************************************)
(* cci/1-opc compile.c: compile_arithmetic_factor, compile_cast             *)
(*                                                                          *)
(* A type of the opC stage holds its base, its number of indirections and   *)
(* the size of the base.  The assembly emitted is a sequence of items: a    *)
(* term, a register, a number or a newline.  The register content is a      *)
(* signed 32-bit number.                                                    *)
(***************************************************************************)

opc_type(base, indirections, size) ==
    [base |-> base, indirections |-> indirections, size |-> size]

OpcSignedInt == opc_type("signed_int", 0, 4)

\* The scalar types of the opC stage.
OpcScalarTypes ==
    {opc_type("signed_char", 0, 1), opc_type("unsigned_char", 0, 1),
     opc_type("signed_short", 0, 2), opc_type("unsigned_short", 0, 2),
     opc_type("signed_int", 0, 4), opc_type("unsigned_int", 0, 4)}

\* The types given to compile_arithmetic_factor: void, the scalar types and
\* records of every size up to MaxSize, and the pointers to them.
OpcFactorTypes ==
    {opc_type(t.base, indirections, t.size) :
        t \in OpcScalarTypes \cup {opc_type("void", 0, 1)}
              \cup {opc_type("record", 0, size) : size \in 1..MaxSize},
        indirections \in 0..2}

\* The register contents given to compile_cast.
OpcValues ==
    {0, 3, 35, 127, 128, 255, 256, 291, 511, 32767, 32768, 65535, 65536, 74624, -1, -129,
     -32769}

\* The calls of the model.
OpcCalls ==
    {[function |-> "compile_arithmetic_factor", type |-> type, desired |-> type,
      register_num |-> register_num, multiply |-> multiply, value |-> 0] :
        type \in OpcFactorTypes, register_num \in 0..1, multiply \in BOOLEAN}
    \cup {[function |-> "compile_cast", type |-> current, desired |-> desired,
           register_num |-> register_num, multiply |-> FALSE, value |-> value] :
        current \in {OpcSignedInt, opc_type("unsigned_int", 0, 4)}, desired \in OpcScalarTypes \cup {opc_type("signed_char", 1, 1)},
        register_num \in 0..1, value \in OpcValues}
    \cup UNION {{[function |-> "compile_cast", type |-> current, desired |-> desired,
                  register_num |-> 0, multiply |-> FALSE, value |-> value] :
                    desired \in OpcScalarTypes,
                    value \in {v \in OpcValues : 0 <= v /\ v < 2 ^ (8 * current.size - 1)}} :
                 current \in {t \in OpcScalarTypes : t.size < 4}}

emit_term(emitted, keyword) ==
    Append(emitted, [kind |-> "term", text |-> keyword, number |-> 0])
emit_register(emitted, index) ==
    Append(emitted, [kind |-> "register", text |-> "", number |-> index])
emit_int(emitted, value) ==
    Append(emitted, [kind |-> "int", text |-> "", number |-> value])
emit_newline(emitted) ==
    Append(emitted, [kind |-> "newline", text |-> "", number |-> 0])

type_indirections(type) == type.indirections
type_base(type) == type.base
type_is_base(type, base) == type.indirections = 0 /\ type.base = base
type_decrement_indirection(type) == [type EXCEPT !.indirections = @ - 1]

\* type_size of the opC stage: a pointer has 4 bytes.
opc_type_size(type) == IF type.indirections > 0 THEN 4 ELSE type.size

\* compile_arithmetic_factor, lines 485-498: "" is the null shift_term.
shift_term(size) ==
    IF size = 16 THEN "4"
    ELSE IF size = 8 THEN "3"
    ELSE IF size = 4 THEN "2"
    ELSE IF size = 2 THEN "1"
    ELSE ""

\* compile_arithmetic_factor with a shift for every size that is a power of
\* two up to 64.
compile_arithmetic_factor_more_shifts(emitted, type, register_num, multiply) ==
    LET deref == type_decrement_indirection(type)
        size == opc_type_size(deref)
        term == IF size = 64 THEN "6" ELSE IF size = 32 THEN "5" ELSE shift_term(size)
        e1 == emit_term(emitted, IF multiply THEN "shl" ELSE "shrs")
        shifted == emit_newline(emit_term(emit_register(emit_register(
                       e1, register_num), register_num), term))
        loaded == IF size > 127
                  THEN emit_newline(emit_int(emit_term(emit_term(emitted, "imw"), "r9"), size))
                  ELSE emitted
        e2 == emit_register(emit_register(
                  emit_term(loaded, IF multiply THEN "mul" ELSE "divs"),
                  register_num), register_num)
        scaled == emit_newline(IF size > 127 THEN emit_term(e2, "r9") ELSE emit_int(e2, size))
    IN  IF type_is_base(type, "void")
        THEN [msg |-> "Cannot perform arithmetic on value of void type.", emitted |-> emitted]
        ELSE IF type_indirections(type) = 0 THEN [msg |-> "", emitted |-> emitted]
        ELSE IF type_is_base(deref, "void")
        THEN [msg |-> "Cannot perform arithmetic on value of void* type.", emitted |-> emitted]
        ELSE IF size = 1 THEN [msg |-> "", emitted |-> emitted]
        ELSE IF term # "" THEN [msg |-> "", emitted |-> shifted]
        ELSE [msg |-> "", emitted |-> scaled]

\* compile_arithmetic_factor: [msg, emitted].
compile_arithmetic_factor(emitted, type, register_num, multiply) ==
    LET deref == type_decrement_indirection(type)
        size == opc_type_size(deref)
        e1 == emit_term(emitted, IF multiply THEN "shl" ELSE "shrs")
        shifted == emit_newline(emit_term(emit_register(emit_register(
                       e1, register_num), register_num), shift_term(size)))
        loaded == IF size > 127
                  THEN emit_newline(emit_int(emit_term(emit_term(emitted, "imw"), "r9"), size))
                  ELSE emitted
        e2 == emit_register(emit_register(
                  emit_term(loaded, IF multiply THEN "mul" ELSE "divs"),
                  register_num), register_num)
        scaled == emit_newline(IF size > 127 THEN emit_term(e2, "r9") ELSE emit_int(e2, size))
    IN  IF type_is_base(type, "void")
        THEN [msg |-> "Cannot perform arithmetic on value of void type.", emitted |-> emitted]
        ELSE IF type_indirections(type) = 0 THEN [msg |-> "", emitted |-> emitted]
        ELSE IF type_is_base(deref, "void")
        THEN [msg |-> "Cannot perform arithmetic on value of void* type.", emitted |-> emitted]
        ELSE IF size = 1 THEN [msg |-> "", emitted |-> emitted]
        ELSE IF shift_term(size) # "" THEN [msg |-> "", emitted |-> shifted]
        ELSE [msg |-> "", emitted |-> scaled]

compile_cast_impl(emitted, op, register_num) ==
    emit_newline(emit_register(emit_register(emit_term(emitted, op), register_num),
                               register_num))

compile_cast_base(type) ==
    IF type_indirections(type) > 0 THEN "unsigned_int" ELSE type_base(type)

\* compile_cast that has no case for the character types.
compile_cast_no_char_case(emitted, current_type, desired_type, register_num) ==
    LET desired_base == compile_cast_base(desired_type)
        current_base == compile_cast_base(current_type)
        Cast(op) == compile_cast_impl(emitted, op, register_num)
    IN  IF desired_base = current_base THEN emitted
        ELSE IF desired_base = "signed_short"
        THEN (IF current_base = "signed_char" THEN Cast("sxb")
              ELSE IF current_base = "unsigned_char" THEN emitted
              ELSE Cast("sxs"))
        ELSE IF desired_base = "unsigned_short"
        THEN (IF current_base = "signed_char"
              THEN compile_cast_impl(Cast("sxb"), "trs", register_num)
              ELSE IF current_base \in {"unsigned_char", "unsigned_short"} THEN emitted
              ELSE Cast("trs"))
        ELSE IF current_base = "signed_char" THEN Cast("sxb")
        ELSE IF current_base = "signed_short" THEN Cast("sxs")
        ELSE emitted

\* compile_cast: the assembly emitted.
compile_cast(emitted, current_type, desired_type, register_num) ==
    LET desired_base == compile_cast_base(desired_type)
        current_base == compile_cast_base(current_type)
        Cast(op) == compile_cast_impl(emitted, op, register_num)
    IN  IF desired_base = current_base THEN emitted
        ELSE IF desired_base = "signed_char" THEN Cast("sxb")
        ELSE IF desired_base = "unsigned_char" THEN Cast("trb")
        ELSE IF desired_base = "signed_short"
        THEN (IF current_base = "signed_char" THEN Cast("sxb")
              ELSE IF current_base = "unsigned_char" THEN emitted
              ELSE Cast("sxs"))
        ELSE IF desired_base = "unsigned_short"
        THEN (IF current_base = "signed_char"
              THEN compile_cast_impl(Cast("sxb"), "trs", register_num)
              ELSE IF current_base \in {"unsigned_char", "unsigned_short"} THEN emitted
              ELSE Cast("trs"))
        ELSE IF current_base = "signed_char" THEN Cast("sxb")
        ELSE IF current_base = "signed_short" THEN Cast("sxs")
        ELSE emitted

\* The instructions sxb, sxs, trb, trs of the virtual machine on a register.
opc_execute_term(text, value) ==
    CASE text = "sxb" -> (IF value % 256 >= 128 THEN (value % 256) - 256 ELSE value % 256)
      [] text = "sxs" -> (IF value % 65536 >= 32768 THEN (value % 65536) - 65536
                          ELSE value % 65536)
      [] text = "trb" -> value % 256
      [] text = "trs" -> value % 65536
      [] OTHER -> value

RECURSIVE opc_execute(_, _)
\* The register after the instructions emitted, each of them on that register.
opc_execute(emitted, value) ==
    IF emitted = <<>> THEN value
    ELSE opc_execute(Tail(emitted),
                     IF Head(emitted).kind = "term"
                     THEN opc_execute_term(Head(emitted).text, value) ELSE value)

InitOpc ==
    /\ fatal = ""
    /\ opc_call \in OpcCalls
    /\ opc_emitted = <<>>
    /\ opc_register = opc_call.value
    /\ opc_done = FALSE
    /\ InitRecordVars
    /\ IdleNumberVars
    /\ IdleStringVars
    /\ IdleConvVars
    /\ IdleCallVars
    /\ IdleDeclVars
    /\ IdleLexerVars
    /\ IdleCondVars
    /\ IdleGenVars
    /\ IdleSpecifiersVars
    /\ IdleGlobalsVars
    /\ IdleEmitVars
    /\ IdleExitVars
    /\ IdleTypesVars
    /\ IdleCmpVars

CompileArithmeticFactor ==
    /\ fatal = ""
    /\ ~opc_done
    /\ opc_call.function = "compile_arithmetic_factor"
    /\ LET r == compile_arithmetic_factor(opc_emitted, opc_call.type,
                                          opc_call.register_num, opc_call.multiply)
       IN  /\ fatal' = r.msg
           /\ opc_emitted' = r.emitted
    /\ opc_done' = TRUE
    /\ UNCHANGED <<opc_call, opc_register, notOpcVars>>

\* compile_cast, and the virtual machine running what it emitted.
CompileCast ==
    /\ fatal = ""
    /\ ~opc_done
    /\ opc_call.function = "compile_cast"
    /\ LET emitted == compile_cast(opc_emitted, opc_call.type, opc_call.desired,
                                   opc_call.register_num)
       IN  /\ opc_emitted' = emitted
           /\ opc_register' = opc_execute(emitted, opc_register)
    /\ opc_done' = TRUE
    /\ UNCHANGED <<fatal, opc_call, notOpcVars>>

NextOpc == CompileArithmeticFactor \/ CompileCast

SpecOpc == InitOpc /\ [][NextOpc]_vars

\* compile_arithmetic_factor has returned for a pointer to a type that is
\* not void.
C18_Case ==
    /\ opc_done
    /\ opc_call.function = "compile_arithmetic_factor"
    /\ opc_call.type.indirections > 0
    /\ ~(opc_call.type.indirections = 1 /\ opc_call.type.base = "void")

\* The size of the pointed-to type.
C18_Size == IF opc_call.type.indirections > 1 THEN 4 ELSE opc_call.type.size

C18_Item(kind, text, number) == [kind |-> kind, text |-> text, number |-> number]

\* The decimal text of a shift amount.
C18_Text(k) ==
    CASE k = 1 -> "1" [] k = 2 -> "2" [] k = 3 -> "3" [] k = 4 -> "4" [] k = 5 -> "5"
      [] k = 6 -> "6" [] k = 7 -> "7" [] k = 8 -> "8" [] OTHER -> "?"

\* shl or shrs of the register by log2 of the size.
C18_Shift ==
    <<C18_Item("term", IF opc_call.multiply THEN "shl" ELSE "shrs", 0),
      C18_Item("register", "", opc_call.register_num),
      C18_Item("register", "", opc_call.register_num),
      C18_Item("term", C18_Text(Log2(C18_Size)), 0),
      C18_Item("newline", "", 0)>>

\* mul or divs of the register by the size: an immediate below 128, else r9
\* loaded with imw.
C18_Scale ==
    (IF C18_Size < 128 THEN <<>>
     ELSE <<C18_Item("term", "imw", 0), C18_Item("term", "r9", 0),
            C18_Item("int", "", C18_Size), C18_Item("newline", "", 0)>>)
    \o <<C18_Item("term", IF opc_call.multiply THEN "mul" ELSE "divs", 0),
         C18_Item("register", "", opc_call.register_num),
         C18_Item("register", "", opc_call.register_num),
         IF C18_Size < 128 THEN C18_Item("int", "", C18_Size) ELSE C18_Item("term", "r9", 0),
         C18_Item("newline", "", 0)>>

\* C18 as stated: every size that is a power of two above 1 is scaled with
\* shl or shrs by log2 of the size; mul or divs is emitted only for the sizes
\* that are no power of two, with an immediate below 128 and through imw
\* into r9 otherwise.
C18_EveryPowerOfTwoShifted ==
    C18_Case =>
        /\ fatal = ""
        /\ opc_emitted = IF C18_Size = 1 THEN <<>>
                         ELSE IF IsPowerOfTwo(C18_Size) THEN C18_Shift
                         ELSE C18_Scale

\* C18: the sizes 2, 4, 8 and 16 are scaled with shl or shrs by 1, 2, 3 and
\* 4; every other size but 1, the powers of two from 32 on included, is
\* scaled with mul or divs, with an immediate below 128 and through imw into
\* r9 otherwise; nothing is emitted for the size 1.
C18_ShiftsUpTo16 ==
    C18_Case =>
        /\ fatal = ""
        /\ opc_emitted = IF C18_Size = 1 THEN <<>>
                         ELSE IF C18_Size \in {2, 4, 8, 16} THEN C18_Shift
                         ELSE C18_Scale

\* An integer that is added to a pointer to a record of 32 bytes was scaled
\* with mul by the immediate 32.
C18_Witness ==
    /\ C18_Case
    /\ opc_call.multiply
    /\ C18_Size = 32
    /\ Len(opc_emitted) = 5
    /\ opc_emitted[1].text = "mul"
    /\ opc_emitted[4] = C18_Item("int", "", 32)

\* b = foo() for struct P { int x, y; }: an assignment of a struct of 8 bytes
\* has been generated.
C19_Case ==
    /\ gen_done
    /\ gen_node.kind = "assign"
    /\ gen_node.type = gen_type("none", "record", 8, 0)

RECURSIVE C19_BytesStored(_)
\* The bytes that the store instructions of the block write; a call of
\* memcpy writes the whole value.
C19_BytesStored(block) ==
    IF block = <<>> THEN 0
    ELSE C19_BytesStored(Tail(block))
         + (CASE Head(block).op = "STB" -> 1
              [] Head(block).op = "STS" -> 2
              [] Head(block).op = "STW" -> 4
              [] Head(block).op = "CALL" /\ Head(block).label = "memcpy" -> 8
              [] OTHER -> 0)

\* C19: the assignment of a struct of 8 bytes is generated without a fatal
\* error, and the block stores every member: all 8 bytes.
C19_StructAssignStores ==
    C19_Case =>
        /\ fatal = ""
        /\ C19_BytesStored(gen_block) = 8

\* The assignment of the struct of 8 bytes was fatal, and no store is in the
\* block.
C19_LargeAssignFatal ==
    /\ C19_Case
    /\ fatal = "large assign not yet implemented"
    /\ C19_BytesStored(gen_block) = 0

\* An assignment is generated without a fatal error exactly if its type has
\* 1, 2 or 4 bytes, and then one store of that size is in the block.
C19_StoresUpToWord ==
    (gen_done /\ gen_node.kind = "assign") =>
        IF gen_node.type.size \in {1, 2, 4}
        THEN fatal = "" /\ C19_BytesStored(gen_block) = gen_node.type.size
        ELSE fatal = "large assign not yet implemented"

\* compile_cast has returned for an int value cast to a character type.
C20_Case ==
    /\ opc_done
    /\ opc_call.function = "compile_cast"
    /\ opc_call.type = OpcSignedInt
    /\ opc_call.desired.indirections = 0
    /\ opc_call.desired.base \in {"signed_char", "unsigned_char"}

\* The number of 0..255 that differs from v by a multiple of 256.
C20_LowBits(v) == CHOOSE r \in 0..255 : (v - r) % 256 = 0

\* The low 8 bits of v as a value of the character type.
C20_Char(v, base) ==
    IF base = "signed_char" /\ C20_LowBits(v) > 127
    THEN C20_LowBits(v) - 256
    ELSE C20_LowBits(v)

\* C20: after the cast of an int value to a character type the register
\* holds the low 8 bits of the value, sign-extended for signed char: 0x123
\* becomes 0x23 and 0x100 becomes zero.
C20_CastToChar ==
    C20_Case =>
        /\ opc_register = C20_Char(opc_call.value, opc_call.desired.base)
        /\ opc_call.value = 291 => opc_register = 35
        /\ opc_call.value = 256 => opc_register = 0
        /\ opc_call.value = 3 => opc_register = 3

\* (signed char)0x123 has been compiled: sxb on the register left 0x23.
C20_Witness ==
    /\ C20_Case
    /\ opc_call.desired.base = "signed_char"
    /\ opc_call.value = 291
    /\ opc_register = 35
    /\ \E i \in 1..Len(opc_emitted) :
           opc_emitted[i].kind = "term" /\ opc_emitted[i].text = "sxb"

\* A negative low byte is sign-extended for signed char and not for unsigned
\* char.
C20_SignExtended ==
    /\ C20_Case
    /\ opc_call.value = 255
    /\ opc_register = (IF opc_call.desired.base = "signed_char" THEN -1 ELSE 255)

(***************************************************************************)
(* cci/2-full parse_decl.c: declaration specifiers, try_parse_declaration   *)
(*                                                                          *)
(* The token stream is a sequence of token values; beyond its end the       *)
(* current token is the end token, written "".  The type specifiers are the *)
(* set of the TYPE_SPECIFIER flags that are set.  No typedef name, struct,  *)
(* union or enum is in the scope or in the input, so specifiers->type is    *)
(* null throughout, and every name declared is new to its scope.            *)
(***************************************************************************)

StorageKeywords == {"typedef", "extern", "static", "auto", "register"}
TypeSpecifierKeywords ==
    {"void", "char", "short", "int", "signed", "unsigned", "float", "double", "_Bool"}
QualifierKeywords == {"const", "volatile", "restrict"}
FunctionKeywords == {"inline", "_Noreturn"}
Identifiers == {"x", "y"}

\* The tokens of type token_type_alphanumeric.
AlphanumericTokens ==
    StorageKeywords \cup TypeSpecifierKeywords \cup QualifierKeywords
    \cup FunctionKeywords \cup Identifiers \cup {"long", "_Thread_local"}

\* lexer_token at a position of the stream.
token_at(tokens, pos) == IF pos < Len(tokens) THEN tokens[pos + 1] ELSE ""

\* TYPE_SPECIFIER_ flag of a keyword of try_parse_type_specifier.
type_specifier_flag(keyword) ==
    CASE keyword = "void" -> "VOID"
      [] keyword = "char" -> "CHAR"
      [] keyword = "short" -> "SHORT"
      [] keyword = "int" -> "INT"
      [] keyword = "signed" -> "SIGNED"
      [] keyword = "unsigned" -> "UNSIGNED"
      [] keyword = "float" -> "FLOAT"
      [] keyword = "double" -> "DOUBLE"
      [] keyword = "_Bool" -> "BOOL"

specifiers_init ==
    [storage_specifier |-> "none", type_specifiers |-> {}, type_qualifiers |-> {},
     function_specifiers |-> {}]

\* specifiers_convert: [base, msg, warned].
specifiers_convert(type_specifiers) ==
    LET Base(b) == [base |-> b, msg |-> "", warned |-> FALSE]
    IN  CASE type_specifiers = {} ->
               [base |-> "signed_int", msg |-> "", warned |-> TRUE]
          [] type_specifiers = {"VOID"} -> Base("void")
          [] type_specifiers = {"CHAR"} -> Base("char")
          [] type_specifiers = {"SIGNED", "CHAR"} -> Base("signed_char")
          [] type_specifiers = {"UNSIGNED", "CHAR"} -> Base("unsigned_char")
          [] type_specifiers \in {{"SHORT"}, {"SIGNED", "SHORT"}, {"SHORT", "INT"},
                                  {"SIGNED", "SHORT", "INT"}} -> Base("signed_short")
          [] type_specifiers \in {{"UNSIGNED", "SHORT"}, {"UNSIGNED", "SHORT", "INT"}} ->
               Base("unsigned_short")
          [] type_specifiers \in {{"INT"}, {"SIGNED"}, {"SIGNED", "INT"}} ->
               Base("signed_int")
          [] type_specifiers \in {{"UNSIGNED"}, {"UNSIGNED", "INT"}} -> Base("unsigned_int")
          [] type_specifiers \in {{"LONG"}, {"SIGNED", "LONG"}, {"LONG", "INT"},
                                  {"SIGNED", "LONG", "INT"}} -> Base("signed_int")
          [] type_specifiers \in {{"UNSIGNED", "LONG"}, {"UNSIGNED", "LONG", "INT"}} ->
               Base("unsigned_int")
          [] type_specifiers \in {{"LONG_LONG"}, {"SIGNED", "LONG_LONG"},
                                  {"LONG_LONG", "INT"}, {"SIGNED", "LONG_LONG", "INT"}} ->
               Base("signed_long_long")
          [] type_specifiers \in {{"UNSIGNED", "LONG_LONG"},
                                  {"UNSIGNED", "LONG_LONG", "INT"}} ->
               Base("unsigned_long_long")
          [] type_specifiers = {"FLOAT"} -> Base("float")
          [] type_specifiers = {"DOUBLE"} -> Base("double")
          [] type_specifiers = {"LONG", "DOUBLE"} -> Base("double")
          [] type_specifiers = {"BOOL"} -> Base("bool")
          [] OTHER -> [base |-> "", msg |-> "Invalid combination of type specifiers.",
                       warned |-> FALSE]

\* specifiers_check_type: the message of the fatal error, "" if there is none.
specifiers_check_type(specifiers) == specifiers_convert(specifiers.type_specifiers).msg

\* try_parse_type_specifier for a keyword that is the current token.
try_parse_type_specifier(specifiers, keyword) ==
    LET flag == type_specifier_flag(keyword)
        added == [specifiers EXCEPT !.type_specifiers = @ \cup {flag}]
    IN  IF flag \in specifiers.type_specifiers
        THEN [matched |-> TRUE, specifiers |-> specifiers,
              msg |-> "Redundant type specifier"]
        ELSE [matched |-> TRUE, specifiers |-> added, msg |-> specifiers_check_type(added)]

\* The keyword long treated as the other type specifiers are: a second long
\* is redundant.
try_parse_declaration_specifier_long_once(specifiers) ==
    LET added == [specifiers EXCEPT !.type_specifiers = @ \cup {"LONG"}]
    IN  IF "LONG" \in specifiers.type_specifiers
        THEN [matched |-> TRUE, specifiers |-> specifiers,
              msg |-> "Redundant type specifier"]
        ELSE [matched |-> TRUE, specifiers |-> added, msg |-> specifiers_check_type(added)]

\* try_parse_declaration_specifier_keywords, lines 325-338: the keyword long.
try_parse_declaration_specifier_long(specifiers) ==
    LET flags == specifiers.type_specifiers
        added == [specifiers EXCEPT !.type_specifiers =
                      IF "LONG" \in flags THEN (flags \ {"LONG"}) \cup {"LONG_LONG"}
                      ELSE flags \cup {"LONG"}]
    IN  IF "LONG_LONG" \in flags
        THEN [matched |-> TRUE, specifiers |-> specifiers,
              msg |-> "long long long is invalid."]
        ELSE [matched |-> TRUE, specifiers |-> added, msg |-> specifiers_check_type(added)]

\* try_parse_declaration_specifier_keywords on the current token:
\* [matched, specifiers, msg]; a matched keyword is consumed by the caller.
try_parse_declaration_specifier_keywords(specifiers, token) ==
    LET Matched(new, msg) == [matched |-> TRUE, specifiers |-> new, msg |-> msg]
    IN  IF token \in StorageKeywords
        THEN (IF specifiers.storage_specifier # "none"
              THEN Matched(specifiers, "At most one storage specifier can be provided for a declaration.")
              ELSE Matched([specifiers EXCEPT !.storage_specifier = token], ""))
        ELSE IF token = "_Thread_local"
        THEN Matched(specifiers, "_Thread_local is not supported.")
        ELSE IF token \in TypeSpecifierKeywords
        THEN try_parse_type_specifier(specifiers, token)
        ELSE IF token \in QualifierKeywords
        THEN (IF token \in specifiers.type_qualifiers
              THEN Matched(specifiers, "Redundant declaration specifier")
              ELSE Matched([specifiers EXCEPT !.type_qualifiers = @ \cup {token}], ""))
        ELSE IF token \in FunctionKeywords
        THEN (IF token \in specifiers.function_specifiers
              THEN Matched(specifiers, "Redundant declaration specifier")
              ELSE Matched([specifiers EXCEPT !.function_specifiers = @ \cup {token}], ""))
        ELSE IF token = "long"
        THEN try_parse_declaration_specifier_long(specifiers)
        ELSE [matched |-> FALSE, specifiers |-> specifiers, msg |-> ""]

RECURSIVE try_parse_declaration_specifiers(_, _, _, _)
\* try_parse_declaration_specifiers: [found, specifiers, pos, msg].
try_parse_declaration_specifiers(tokens, pos, specifiers, found) ==
    LET token == token_at(tokens, pos)
        r == try_parse_declaration_specifier_keywords(specifiers, token)
        stop == [found |-> found, specifiers |-> specifiers, pos |-> pos, msg |-> ""]
    IN  IF token \notin AlphanumericTokens THEN stop
        ELSE IF ~r.matched THEN stop
        ELSE IF r.msg # ""
        THEN [found |-> TRUE, specifiers |-> r.specifiers, pos |-> pos, msg |-> r.msg]
        ELSE try_parse_declaration_specifiers(tokens, pos + 1, r.specifiers, TRUE)

\* specifiers_make_type: [base, msg, warned] of the type made.
specifiers_make_type(specifiers) == specifiers_convert(specifiers.type_specifiers)

RECURSIVE try_parse_type_qualifiers(_, _, _)
\* try_parse_type_qualifiers after an asterisk: [pos, msg].
try_parse_type_qualifiers(tokens, pos, type_qualifiers) ==
    LET token == token_at(tokens, pos)
    IN  IF token \notin QualifierKeywords THEN [pos |-> pos, msg |-> ""]
        ELSE IF token \in type_qualifiers
        THEN [pos |-> pos, msg |-> "Redundant declaration specifier"]
        ELSE try_parse_type_qualifiers(tokens, pos + 1, type_qualifiers \cup {token})

RECURSIVE try_parse_declarator(_, _)
\* try_parse_declarator with a name wanted: [found, name, pos, msg].  No
\* bracket and no parenthesis is in the input.
try_parse_declarator(tokens, pos) ==
    LET token == token_at(tokens, pos)
        q == try_parse_type_qualifiers(tokens, pos + 1, {})
    IN  IF token = "*"
        THEN (IF q.msg # "" THEN [found |-> FALSE, name |-> "", pos |-> q.pos, msg |-> q.msg]
              ELSE try_parse_declarator(tokens, q.pos))
        ELSE IF token \in AlphanumericTokens
        THEN [found |-> TRUE, name |-> token, pos |-> pos + 1, msg |-> ""]
        ELSE [found |-> FALSE, name |-> "", pos |-> pos, msg |-> ""]

RECURSIVE parse_declarators(_, _, _, _)
\* try_parse_declaration, lines 1341-1408: the list of declarators:
\* [msg, pos, names].
parse_declarators(tokens, pos, specifiers, names) ==
    LET d == try_parse_declarator(tokens, pos)
        declared == Append(names, d.name)
        next == token_at(tokens, d.pos)
    IN  IF d.msg # "" THEN [msg |-> d.msg, pos |-> d.pos, names |-> names]
        ELSE IF ~d.found
        THEN [msg |-> "Expected a declarator for this global declaration.",
              pos |-> d.pos, names |-> names]
        ELSE IF specifiers.storage_specifier = "typedef" /\ next \in {"=", "{"}
        THEN [msg |-> "A definition cannot be provided for a typedef declaration.",
              pos |-> d.pos, names |-> declared]
        ELSE IF specifiers.storage_specifier # "typedef" /\ next = "{"
        THEN [msg |-> "Cannot initialize a variable with {.",
              pos |-> d.pos, names |-> names]
        ELSE IF next = "," THEN parse_declarators(tokens, d.pos + 1, specifiers, declared)
        ELSE IF next = ";" THEN [msg |-> "", pos |-> d.pos + 1, names |-> declared]
        ELSE [msg |-> "Expected ; or , at end of declarator.",
              pos |-> d.pos, names |-> declared]

\* try_parse_declaration: [returned, msg, pos, base, warnings, names].
try_parse_declaration(tokens, parent) ==
    LET s == try_parse_declaration_specifiers(tokens, 0, specifiers_init, FALSE)
        base_type == specifiers_make_type(s.specifiers)
        warnings == IF base_type.warned THEN 1 ELSE 0
        d == parse_declarators(tokens, s.pos, s.specifiers, <<>>)
    IN  IF s.msg # ""
        THEN [returned |-> "none", msg |-> s.msg, pos |-> s.pos, base |-> "",
              warnings |-> 0, names |-> <<>>]
        ELSE IF ~s.found /\ parent
        THEN [returned |-> "false", msg |-> "", pos |-> s.pos, base |-> "",
              warnings |-> 0, names |-> <<>>]
        ELSE IF base_type.msg # ""
        THEN [returned |-> "none", msg |-> base_type.msg, pos |-> s.pos, base |-> "",
              warnings |-> 0, names |-> <<>>]
        ELSE IF d.msg # ""
        THEN [returned |-> "none", msg |-> d.msg, pos |-> d.pos, base |-> base_type.base,
              warnings |-> warnings, names |-> d.names]
        ELSE [returned |-> "true", msg |-> "", pos |-> d.pos, base |-> base_type.base,
              warnings |-> warnings, names |-> d.names]

\* The longest list of type specifiers in the input: unsigned long long int
\* has four keywords.
MaxSpecifiers == 4

RECURSIVE TypeSpecifierLists(_)
\* The lists of up to n keywords that are type specifiers.
TypeSpecifierLists(n) ==
    IF n = 0 THEN {<<>>}
    ELSE TypeSpecifierLists(n - 1)
         \cup {Append(l, k) : l \in TypeSpecifierLists(n - 1),
                              k \in TypeSpecifierKeywords \cup {"long"}}

\* What follows the specifiers in the input.
DeclaratorLists ==
    {<<>>, <<";">>, <<"x">>, <<"x", ";">>, <<"*", "x", ";">>, <<"*", ";">>,
     <<"x", ",", "y", ";">>, <<"x", ",", ";">>, <<"*", "const", "x", ";">>,
     <<"*", "const", "const", "x", ";">>}

\* The token streams of every list of up to MaxSpecifiers type specifiers
\* before one declarator.
SpecifierStreams == {l \o <<"x", ";">> : l \in TypeSpecifierLists(MaxSpecifiers)}

\* The token streams of nothing, one keyword or static and a keyword, before
\* every declarator list.
DeclarationStreams ==
    {l \o d : l \in {<<>>} \cup {<<k>> : k \in AlphanumericTokens \ {"y"}}
                   \cup {<<"static", k>> : k \in AlphanumericTokens \ {"y"}},
             d \in DeclaratorLists}

InitSpecifiers ==
    /\ fatal = ""
    /\ \/ spec_tokens \in SpecifierStreams /\ spec_parent = FALSE
       \/ spec_tokens \in DeclarationStreams /\ spec_parent \in BOOLEAN
    /\ spec_pos = 0
    /\ spec_returned = "none"
    /\ spec_base = ""
    /\ spec_warnings = 0
    /\ spec_names = <<>>
    /\ InitRecordVars
    /\ IdleNumberVars
    /\ IdleStringVars
    /\ IdleConvVars
    /\ IdleCallVars
    /\ IdleDeclVars
    /\ IdleLexerVars
    /\ IdleCondVars
    /\ IdleGenVars
    /\ IdleOpcVars
    /\ IdleGlobalsVars
    /\ IdleEmitVars
    /\ IdleExitVars
    /\ IdleTypesVars
    /\ IdleCmpVars

\* try_parse_declaration(parent) on the token stream.
TryParseDeclaration ==
    /\ fatal = ""
    /\ spec_returned = "none"
    /\ LET r == try_parse_declaration(spec_tokens, spec_parent)
       IN  /\ fatal' = r.msg
           /\ spec_returned' = r.returned
           /\ spec_pos' = r.pos
           /\ spec_base' = r.base
           /\ spec_warnings' = r.warnings
           /\ spec_names' = r.names
    /\ UNCHANGED <<spec_tokens, spec_parent, notSpecifiersVars>>

NextSpecifiers == TryParseDeclaration

SpecSpecifiers == InitSpecifiers /\ [][NextSpecifiers]_vars

\* The valid lists of type specifier keywords (C17 6.7.2), each in one order,
\* and the base type of each.
C21_Valid ==
    {[keywords |-> <<"void">>, base |-> "void"],
     [keywords |-> <<"char">>, base |-> "char"],
     [keywords |-> <<"signed", "char">>, base |-> "signed_char"],
     [keywords |-> <<"unsigned", "char">>, base |-> "unsigned_char"],
     [keywords |-> <<"short">>, base |-> "signed_short"],
     [keywords |-> <<"signed", "short">>, base |-> "signed_short"],
     [keywords |-> <<"short", "int">>, base |-> "signed_short"],
     [keywords |-> <<"signed", "short", "int">>, base |-> "signed_short"],
     [keywords |-> <<"unsigned", "short">>, base |-> "unsigned_short"],
     [keywords |-> <<"unsigned", "short", "int">>, base |-> "unsigned_short"],
     [keywords |-> <<"int">>, base |-> "signed_int"],
     [keywords |-> <<"signed">>, base |-> "signed_int"],
     [keywords |-> <<"signed", "int">>, base |-> "signed_int"],
     [keywords |-> <<"unsigned">>, base |-> "unsigned_int"],
     [keywords |-> <<"unsigned", "int">>, base |-> "unsigned_int"],
     [keywords |-> <<"long">>, base |-> "signed_int"],
     [keywords |-> <<"signed", "long">>, base |-> "signed_int"],
     [keywords |-> <<"long", "int">>, base |-> "signed_int"],
     [keywords |-> <<"signed", "long", "int">>, base |-> "signed_int"],
     [keywords |-> <<"unsigned", "long">>, base |-> "unsigned_int"],
     [keywords |-> <<"unsigned", "long", "int">>, base |-> "unsigned_int"],
     [keywords |-> <<"long", "long">>, base |-> "signed_long_long"],
     [keywords |-> <<"signed", "long", "long">>, base |-> "signed_long_long"],
     [keywords |-> <<"long", "long", "int">>, base |-> "signed_long_long"],
     [keywords |-> <<"signed", "long", "long", "int">>, base |-> "signed_long_long"],
     [keywords |-> <<"unsigned", "long", "long">>, base |-> "unsigned_long_long"],
     [keywords |-> <<"unsigned", "long", "long", "int">>, base |-> "unsigned_long_long"],
     [keywords |-> <<"float">>, base |-> "float"],
     [keywords |-> <<"double">>, base |-> "double"],
     [keywords |-> <<"long", "double">>, base |-> "double"],
     [keywords |-> <<"_Bool">>, base |-> "bool"]}

\* How often a keyword is in a list.
C21_Count(list, keyword) == Cardinality({i \in 1..Len(list) : list[i] = keyword})

\* One list is a permutation of the other.
C21_Permutation(a, b) ==
    /\ Len(a) = Len(b)
    /\ \A i \in 1..Len(a) : C21_Count(a, a[i]) = C21_Count(b, a[i])

\* The tokens before the declarator x of a declaration of one declarator.
C21_Specifiers == SubSeq(spec_tokens, 1, Len(spec_tokens) - 2)

\* try_parse_declaration has run on a permutation of a valid list of type
\* specifiers followed by the declarator x.
C21_Case(valid) ==
    /\ spec_returned # "none" \/ fatal # ""
    /\ Len(spec_tokens) >= 3
    /\ SubSeq(spec_tokens, Len(spec_tokens) - 1, Len(spec_tokens)) = <<"x", ";">>
    /\ C21_Permutation(C21_Specifiers, valid.keywords)

\* C21: every permutation of a valid list of type specifier keywords is
\* accepted, and the type made has the base of the list, whatever the order.
C21_AnyOrder ==
    \A valid \in C21_Valid :
        C21_Case(valid) =>
            /\ fatal = ""
            /\ spec_returned = "true"
            /\ spec_base = valid.base
            /\ spec_warnings = 0

\* long unsigned int long x; has been accepted as unsigned long long.
C21_Witness ==
    /\ spec_tokens = <<"long", "unsigned", "int", "long", "x", ";">>
    /\ spec_returned = "true"
    /\ fatal = ""
    /\ spec_base = "unsigned_long_long"

\* A list of type specifiers that is no permutation of a valid list is fatal.
C21_OnlyValid ==
    (/\ spec_returned # "none" \/ fatal # ""
     /\ Len(spec_tokens) >= 3
     /\ SubSeq(spec_tokens, Len(spec_tokens) - 1, Len(spec_tokens)) = <<"x", ";">>
     /\ \A i \in 1..Len(C21_Specifiers) :
            C21_Specifiers[i] \in TypeSpecifierKeywords \cup {"long"}
     /\ C21_Specifiers # <<>>
     /\ \A valid \in C21_Valid : ~C21_Permutation(C21_Specifiers, valid.keywords))
    => fatal # ""

\* try_parse_declaration has returned or has aborted.
C22_Done == spec_returned # "none" \/ fatal # ""

\* No type specifier is in the token stream.
C22_NoTypeSpecifier ==
    \A i \in 1..Len(spec_tokens) : spec_tokens[i] \notin TypeSpecifierKeywords \cup {"long"}

\* The specifier list was parsed without a fatal error, and a type was made.
C22_TypeMade == spec_base # ""

\* C22: at file scope try_parse_declaration returns false when the token
\* stream is empty and in no other situation; where no type specifier is
\* present it goes on with an implicit int and a warning.
C22_FalseOnEmptyStream ==
    (C22_Done /\ ~spec_parent) =>
        /\ spec_tokens = <<>> => spec_returned = "false"
        /\ spec_tokens # <<>> => spec_returned # "false"
        /\ (spec_tokens # <<>> /\ C22_NoTypeSpecifier /\ C22_TypeMade) =>
               (spec_warnings = 1 /\ spec_base = "signed_int")

\* At file scope try_parse_declaration never returns false: the empty token
\* stream gets an implicit int and a warning as well, and then is fatal for
\* its missing declarator.
C22_NeverFalseAtFileScope ==
    (C22_Done /\ ~spec_parent) =>
        /\ spec_returned # "false"
        /\ (C22_NoTypeSpecifier /\ C22_TypeMade) =>
               (spec_warnings = 1 /\ spec_base = "signed_int")
        /\ spec_tokens = <<>> =>
               (/\ fatal = "Expected a declarator for this global declaration."
                /\ spec_warnings = 1)

\* The empty token stream at file scope was fatal.
C22_EmptyStreamFatal ==
    /\ ~spec_parent
    /\ spec_tokens = <<>>
    /\ spec_returned = "none"
    /\ fatal = "Expected a declarator for this global declaration."

\* In block scope try_parse_declaration returns false exactly if the first
\* token is no declaration specifier.
C22_FalseInBlockScope ==
    (C22_Done /\ spec_parent) =>
        (spec_returned = "false"
            <=> token_at(spec_tokens, 0) \notin AlphanumericTokens \ Identifiers)

(***************************************************************************)
(* cci/1-opc global.c: the table of globals                                 *)
(*                                                                          *)
(* A name is a number and fnv1a_cstr of a name is that number, so two names *)
(* that differ by a multiple of the table size share a first bucket.  A     *)
(* type is its name.  The table of 512 buckets of the source has            *)
(* globals_buckets buckets in the model; the limit of half the buckets is   *)
(* computed from it as the source does.                                     *)
(***************************************************************************)

globals_buckets == 4

\* The number of declarations in a behaviour.
MaxDeclares == 3

NoGlobal ==
    [name |-> -1, type |-> "", variadic |-> FALSE, arg_count |-> -1, arg_types |-> <<>>]

\* globals_init: every bucket is null.
globals_init == [i \in 1..globals_buckets |-> NoGlobal]

GlobalNames == {0, globals_buckets}
GlobalTypes == {"int", "char"}
GlobalArgTypes == {<<>>, <<"int">>, <<"char">>}

fnv1a_cstr(name) == name

global_name(global) == global.name
global_type(global) == global.type
global_is_variable(global) == global.arg_count = -1
global_is_function(global) == global.arg_count # -1
global_function_is_variadic(global) == global.variadic
global_function_arg_count(global) == global.arg_count
global_function_arg_type(global, index) == global.arg_types[index + 1]

RECURSIVE global_probe(_, _, _, _)
\* global_find_bucket, lines 68-77: the loop, from an index, after a number
\* of probes.  After globals_buckets probes the loop is back at its first
\* index with nothing changed and does not end: -1.
global_probe(table, name, index, probes) ==
    IF probes = globals_buckets THEN -1
    ELSE IF table[index + 1] = NoGlobal THEN index
    ELSE IF name = global_name(table[index + 1]) THEN index
    ELSE global_probe(table, name, (index + 1) % globals_buckets, probes + 1)

\* global_find_bucket: the index of the bucket.
global_find_bucket(table, name) ==
    global_probe(table, name, fnv1a_cstr(name) % globals_buckets, 0)

\* global_check_match: the message of the fatal error, "" if there is none.
global_check_match(left, right) ==
    IF global_is_variable(left) # global_is_variable(right)
    THEN "Global symbol re-declared as different kind: "
    ELSE IF global_type(left) # global_type(right)
    THEN (IF global_is_variable(left)
          THEN "Global variable re-declared with a different type:"
          ELSE "Function re-declared with a different return type: ")
    ELSE IF global_is_variable(left) THEN ""
    ELSE IF global_function_arg_count(left) # global_function_arg_count(right)
    THEN "Function re-declared with a different number of arguments:"
    ELSE IF \E i \in 0..(global_function_arg_count(left) - 1) :
                global_function_arg_type(left, i) # global_function_arg_type(right, i)
    THEN "Function re-declared with different argument types:"
    ELSE IF global_function_is_variadic(left) # global_function_is_variadic(right)
    THEN "Function re-declared with a different variadic argument:"
    ELSE ""

\* global_add: [msg, table, count, index]; index is the bucket of the global
\* returned.
global_add(table, count, global) ==
    LET index == global_find_bucket(table, global_name(global))
        msg == global_check_match(global, table[index + 1])
    IN  IF table[index + 1] # NoGlobal
        THEN [msg |-> msg, table |-> table, count |-> count, index |-> index]
        ELSE IF count = globals_buckets \div 2
        THEN [msg |-> "Too many globals.", table |-> table, count |-> count,
              index |-> index]
        ELSE [msg |-> "", table |-> [table EXCEPT ![index + 1] = global],
              count |-> count + 1, index |-> index]

global_declare_variable(table, count, type, name) ==
    global_add(table, count,
               [name |-> name, type |-> type, variadic |-> FALSE, arg_count |-> -1,
                arg_types |-> <<>>])

global_declare_function(table, count, return_type, name, arg_count, arg_types) ==
    global_add(table, count,
               [name |-> name, type |-> return_type, variadic |-> FALSE,
                arg_count |-> arg_count, arg_types |-> arg_types])

\* global_set_variadic on the global of a bucket.
global_set_variadic(table, index, variadic) ==
    [table EXCEPT ![index + 1].variadic = variadic]

InitGlobals ==
    /\ fatal = ""
    /\ globals = globals_init
    /\ globals_count = 0
    /\ global_call = NoGlobal
    /\ global_previous = NoGlobal
    /\ global_returned = NoGlobal
    /\ global_calls = 0
    /\ InitRecordVars
    /\ IdleNumberVars
    /\ IdleStringVars
    /\ IdleConvVars
    /\ IdleCallVars
    /\ IdleDeclVars
    /\ IdleLexerVars
    /\ IdleCondVars
    /\ IdleGenVars
    /\ IdleOpcVars
    /\ IdleSpecifiersVars
    /\ IdleEmitVars
    /\ IdleExitVars
    /\ IdleTypesVars
    /\ IdleCmpVars

\* global_declare_variable(type, name).
GlobalDeclareVariable ==
    /\ fatal = ""
    /\ global_calls < MaxDeclares
    /\ \E type \in GlobalTypes, name \in GlobalNames :
        LET r == global_declare_variable(globals, globals_count, type, name)
        IN  /\ global_call' = [name |-> name, type |-> type, variadic |-> FALSE,
                               arg_count |-> -1, arg_types |-> <<>>]
            /\ global_previous' = globals[global_find_bucket(globals, name) + 1]
            /\ fatal' = r.msg
            /\ globals' = r.table
            /\ globals_count' = r.count
            /\ global_returned' = IF r.msg = "" THEN r.table[r.index + 1] ELSE NoGlobal
    /\ global_calls' = global_calls + 1
    /\ UNCHANGED notGlobalsVars

\* global_declare_function(return_type, name, arg_count, arg_types) and then
\* global_set_variadic(global, variadic) on the global that it returned.
GlobalDeclareFunction ==
    /\ fatal = ""
    /\ global_calls < MaxDeclares
    /\ \E return_type \in GlobalTypes, name \in GlobalNames,
          arg_types \in GlobalArgTypes, variadic \in BOOLEAN :
        LET r == global_declare_function(globals, globals_count, return_type, name,
                                         Len(arg_types), arg_types)
            set == global_set_variadic(r.table, r.index, variadic)
        IN  /\ global_call' = [name |-> name, type |-> return_type,
                               variadic |-> variadic, arg_count |-> Len(arg_types),
                               arg_types |-> arg_types]
            /\ global_previous' = globals[global_find_bucket(globals, name) + 1]
            /\ fatal' = r.msg
            /\ globals' = IF r.msg = "" THEN set ELSE r.table
            /\ globals_count' = r.count
            /\ global_returned' = IF r.msg = "" THEN set[r.index + 1] ELSE NoGlobal
    /\ global_calls' = global_calls + 1
    /\ UNCHANGED notGlobalsVars

NextGlobals == GlobalDeclareVariable \/ GlobalDeclareFunction

SpecGlobals == InitGlobals /\ [][NextGlobals]_vars

\* The last call declared a global whose name was in the table.
C23_Case == global_calls > 0 /\ global_previous # NoGlobal

\* The declaration has the kind, type, parameter count, parameter types and
\* variadic flag of the global in the table.
C23_Same ==
    /\ global_call.arg_count = global_previous.arg_count
    /\ global_call.type = global_previous.type
    /\ global_call.arg_types = global_previous.arg_types
    /\ global_call.variadic = global_previous.variadic

\* C23: declaring a global whose name is in the table returns the global of
\* the table, unchanged, exactly if the declaration is the same as that
\* global, and is fatal otherwise.
C23_RedeclarationMatches ==
    C23_Case =>
        IF C23_Same
        THEN fatal = "" /\ global_returned = global_previous
        ELSE fatal # ""

\* The declaration of a variadic function was repeated with the same
\* prototype, and that was fatal.
C23_VariadicRepeatedFatal ==
    /\ C23_Case
    /\ C23_Same
    /\ global_call.variadic
    /\ fatal = "Function re-declared with a different variadic argument:"

\* A function that was declared without variadic arguments was declared
\* again with them: that was accepted, and the global of the table is
\* variadic now.
C23_VariadicAdded ==
    /\ C23_Case
    /\ ~global_previous.variadic
    /\ global_call.variadic
    /\ fatal = ""
    /\ global_returned = [global_previous EXCEPT !.variadic = TRUE]

\* What the code does: the declaration is accepted exactly if kind, type,
\* parameter count and parameter types are the same and the global of the
\* table is not variadic; the global then takes the variadic flag of the
\* declaration.
C23_MatchesButVariadic ==
    C23_Case =>
        IF /\ global_call.arg_count = global_previous.arg_count
           /\ global_call.type = global_previous.type
           /\ global_call.arg_types = global_previous.arg_types
           /\ ~global_previous.variadic
        THEN /\ fatal = ""
             /\ global_returned =
                    [global_previous EXCEPT !.variadic = global_call.variadic]
        ELSE fatal # ""

\* Every lookup in the table of globals ends: a bucket is empty.
C23_GlobalsHaveEmptyBucket ==
    /\ globals_count <= globals_buckets \div 2
    /\ \E i \in 1..globals_buckets : globals[i] = NoGlobal
    /\ \A name \in GlobalNames \cup {1, 2} : global_find_bucket(globals, name) # -1

(***************************************************************************)
(* cci/1-opc emit.c: string literals in the assembly output                 *)
(*                                                                          *)
(* A string is a sequence of bytes 1..255 and the output is the sequence of *)
(* the characters given to fputc.  isprint is the one of the C locale: the  *)
(* bytes 32..126.                                                           *)
(***************************************************************************)

\* The longest string of the model.
MaxString == 3

\* Bytes of the model: newline, space, the double quote, the apostrophe, a
\* letter, the backslash, DEL and a byte above 127.
EmitBytes == {10, 32, 34, 39, 65, 92, 127, 200}

isprint(c) == c >= 32 /\ c <= 126

\* emit_char: the character is written if the output is enabled.
emit_char(output, enabled, c) == IF enabled THEN Append(output, c) ELSE output

\* int_to_hex: the digit of a value up to 15.
int_to_hex(value) == IF value <= 9 THEN 48 + value ELSE 65 + (value - 10)

emit_hex_char(output, enabled, nibble) == emit_char(output, enabled, int_to_hex(nibble))

\* emit_hex_byte: (byte >> 4) & 0xF and byte & 0xF.
emit_hex_byte(output, enabled, byte) ==
    emit_hex_char(emit_hex_char(output, enabled, (byte \div 16) % 16), enabled, byte % 16)

\* is_string_char_valid_assembly with the double quote taken as valid.
is_string_char_valid_assembly_quote(c) ==
    IF c = 92 THEN FALSE ELSE isprint(c)

is_string_char_valid_assembly(c) ==
    IF c = 92 \/ c = 34 THEN FALSE ELSE isprint(c)

emit_quoted_byte(output, enabled, byte) ==
    emit_hex_byte(emit_char(output, enabled, 39), enabled, byte)

RECURSIVE emit_string_literal_loop(_, _, _, _, _)
\* The loop of emit_string_literal from the byte at pos on: [output, open].
emit_string_literal_loop(output, enabled, str, pos, open) ==
    IF pos > Len(str) THEN [output |-> output, open |-> open]
    ELSE LET c == str[pos]
             valid == is_string_char_valid_assembly(c)
             quoted == IF valid # open THEN emit_char(output, enabled, 34) ELSE output
             open2 == IF valid # open THEN ~open ELSE open
             written == IF valid THEN emit_char(quoted, enabled, c)
                        ELSE emit_quoted_byte(quoted, enabled, c)
         IN  emit_string_literal_loop(written, enabled, str, pos + 1, open2)

emit_string_literal(output, enabled, str) ==
    LET r == emit_string_literal_loop(output, enabled, str, 1, FALSE)
    IN  IF r.open THEN emit_char(r.output, enabled, 34) ELSE r.output

InitEmit ==
    /\ fatal = ""
    /\ emit_str \in UNION {[1..n -> EmitBytes] : n \in 0..MaxString}
    /\ emit_enabled \in BOOLEAN
    /\ emit_output = <<>>
    /\ emit_done = FALSE
    /\ InitRecordVars
    /\ IdleNumberVars
    /\ IdleStringVars
    /\ IdleConvVars
    /\ IdleCallVars
    /\ IdleDeclVars
    /\ IdleLexerVars
    /\ IdleCondVars
    /\ IdleGenVars
    /\ IdleOpcVars
    /\ IdleSpecifiersVars
    /\ IdleGlobalsVars
    /\ IdleExitVars
    /\ IdleTypesVars
    /\ IdleCmpVars

\* emit_string_literal(str).
EmitStringLiteral ==
    /\ ~emit_done
    /\ emit_output' = emit_string_literal(emit_output, emit_enabled, emit_str)
    /\ emit_done' = TRUE
    /\ UNCHANGED <<fatal, emit_str, emit_enabled, notEmitVars>>

NextEmit == EmitStringLiteral

SpecEmit == InitEmit /\ [][NextEmit]_vars

\* The value of a hex digit of the output, -1 for any other character.
C25_HexValue(c) ==
    IF c >= 48 /\ c <= 57 THEN c - 48
    ELSE IF c >= 65 /\ c <= 70 THEN c - 55
    ELSE -1

RECURSIVE C25_Read(_, _, _, _, _, _)
\* The output read as assembly from pos on: a double quote opens or closes a
\* run, a character inside a run is a byte, and outside a run an apostrophe
\* and two hex digits are a byte.  The result holds the bytes, for each byte
\* whether it was inside a run, the number of double quotes, whether a run is
\* open at the end, and whether the output could be read.
C25_Read(output, pos, open, bytes, inside, quotes) ==
    IF pos > Len(output)
    THEN [ok |-> TRUE, bytes |-> bytes, inside |-> inside, quotes |-> quotes, open |-> open]
    ELSE IF output[pos] = 34
    THEN C25_Read(output, pos + 1, ~open, bytes, inside, quotes + 1)
    ELSE IF open
    THEN C25_Read(output, pos + 1, open, Append(bytes, output[pos]),
                  Append(inside, TRUE), quotes)
    ELSE IF /\ output[pos] = 39
            /\ pos + 2 <= Len(output)
            /\ C25_HexValue(output[pos + 1]) >= 0
            /\ C25_HexValue(output[pos + 2]) >= 0
    THEN C25_Read(output, pos + 3, open,
                  Append(bytes, 16 * C25_HexValue(output[pos + 1])
                                + C25_HexValue(output[pos + 2])),
                  Append(inside, FALSE), quotes)
    ELSE [ok |-> FALSE, bytes |-> bytes, inside |-> inside, quotes |-> quotes, open |-> open]

\* The number of places of the string where the kind of byte changes; before
\* the first byte and after the last one no run is open.
C25_Transitions(str) ==
    LET Kind(i) == IF i < 1 \/ i > Len(str) THEN FALSE
                   ELSE isprint(str[i]) /\ str[i] # 34 /\ str[i] # 92
    IN  Cardinality({i \in 0..Len(str) : Kind(i) # Kind(i + 1)})

\* The string has been written to an enabled output.
C25_Case == emit_done /\ emit_enabled

\* C25: emit_string_literal writes the bytes of its input in their order, a
\* printable byte other than the double quote and the backslash inside a
\* quoted run and every other byte as an apostrophe and two hex digits
\* outside a run; a double quote is written exactly at each change between
\* the two kinds of byte, and no run is open at the end.
C25_RunsAndHexBytes ==
    C25_Case =>
        LET r == C25_Read(emit_output, 1, FALSE, <<>>, <<>>, 0)
        IN  /\ r.ok
            /\ r.bytes = emit_str
            /\ \A i \in DOMAIN emit_str :
                  r.inside[i] = (isprint(emit_str[i]) /\ emit_str[i] # 34 /\ emit_str[i] # 92)
            /\ r.quotes = C25_Transitions(emit_str)
            /\ ~r.open

\* A string with a byte of each kind on both sides of a change: a letter, a
\* double quote and a letter give "A"'22"A".
C25_Witness ==
    /\ C25_Case
    /\ emit_str = <<65, 34, 65>>
    /\ emit_output = <<34, 65, 34, 39, 50, 50, 34, 65, 34>>

\* With the output disabled nothing is written.
C25_DisabledWritesNothing ==
    (emit_done /\ ~emit_enabled) => emit_output = <<>>

(***************************************************************************)
(* libc/3-full atexit.c: atexit and exit                                    *)
(*                                                                          *)
(* A function given to atexit is a number, and what it does when it is      *)
(* called is its body: it returns, it calls atexit with a function, or it   *)
(* calls exit with a status.  The list exit_calls is the sequence of the    *)
(* functions of its nodes from the head on; a node is never changed once    *)
(* it is linked, so the pointer call of the loop of exit is the rest of     *)
(* the list.  exit does not return: of the nested calls of exit only the    *)
(* innermost one runs, and the others count in the depth of the stack.      *)
(***************************************************************************)

\* The longest list of exit calls: malloc returns NULL beyond it.
MaxExitCalls == 3

\* The deepest nesting of exit that the stack holds.
MaxExitDepth == 3

ExitFuncs == {1, 2}
\* The statuses given to exit; -1 is no status.
ExitStatuses == {0, 1}

\* What a function does when it is called.
ExitBodies ==
    {[kind |-> "return", arg |-> 0]}
    \cup {[kind |-> "atexit", arg |-> f] : f \in ExitFuncs}
    \cup {[kind |-> "exit", arg |-> s] : s \in ExitStatuses}

\* atexit(func): [returned, calls]; malloc may return NULL.
atexit(list, func, new_call_is_null) ==
    IF new_call_is_null THEN [returned |-> -1, calls |-> list]
    ELSE [returned |-> 0, calls |-> <<func>> \o list]

InitExit ==
    /\ fatal = ""
    /\ exit_calls = <<>>
    /\ exit_body \in [ExitFuncs -> ExitBodies]
    /\ exit_phase = "main"
    /\ exit_call = <<>>
    /\ exit_status = -1
    /\ exit_first = -1
    /\ exit_final = -1
    /\ exit_depth = 0
    /\ exit_invoked = [f \in ExitFuncs |-> 0]
    /\ exit_order = <<>>
    /\ exit_registered = <<>>
    /\ InitRecordVars
    /\ IdleNumberVars
    /\ IdleStringVars
    /\ IdleConvVars
    /\ IdleCallVars
    /\ IdleDeclVars
    /\ IdleLexerVars
    /\ IdleCondVars
    /\ IdleGenVars
    /\ IdleOpcVars
    /\ IdleSpecifiersVars
    /\ IdleGlobalsVars
    /\ IdleEmitVars
    /\ IdleTypesVars
    /\ IdleCmpVars

\* The program calls atexit(func) before it calls exit.
Atexit ==
    /\ exit_phase = "main"
    /\ \E func \in ExitFuncs, null \in BOOLEAN :
        /\ null \/ Len(exit_calls) < MaxExitCalls
        /\ LET r == atexit(exit_calls, func, null)
           IN  /\ exit_calls' = r.calls
               /\ exit_registered' = IF r.returned = 0 THEN Append(exit_registered, func)
                                     ELSE exit_registered
    /\ UNCHANGED <<fatal, exit_body, exit_phase, exit_call, exit_status, exit_first,
                   exit_final, exit_depth, exit_invoked, exit_order, notExitVars>>

\* The program calls exit(status): the loop starts at exit_calls.
Exit ==
    /\ exit_phase = "main"
    /\ \E status \in ExitStatuses :
        /\ exit_status' = status
        /\ exit_first' = status
    /\ exit_phase' = "exit"
    /\ exit_call' = exit_calls
    /\ exit_depth' = 1
    /\ UNCHANGED <<fatal, exit_calls, exit_body, exit_final, exit_invoked, exit_order,
                   exit_registered, notExitVars>>

\* exit, lines 71-73: call->func() of one turn of the loop, with what the
\* function does: it returns and the loop goes on with call->next, or it calls
\* atexit and returns, or it calls exit, whose loop starts at exit_calls; a
\* call of exit that the stack has no room for ends the program.
ExitCallFunc ==
    /\ exit_phase = "exit"
    /\ exit_call # <<>>
    /\ LET func == Head(exit_call)
           body == exit_body[func]
       IN  /\ exit_invoked' = [exit_invoked EXCEPT ![func] = @ + 1]
           /\ exit_order' = Append(exit_order, func)
           /\ CASE body.kind = "return" ->
                    /\ exit_call' = Tail(exit_call)
                    /\ UNCHANGED <<exit_calls, exit_status, exit_depth, exit_phase>>
                [] body.kind = "atexit" ->
                    /\ \E null \in BOOLEAN :
                          /\ null \/ Len(exit_calls) < MaxExitCalls
                          /\ exit_calls' = atexit(exit_calls, body.arg, null).calls
                    /\ exit_call' = Tail(exit_call)
                    /\ UNCHANGED <<exit_status, exit_depth, exit_phase>>
                [] body.kind = "exit" /\ exit_depth < MaxExitDepth ->
                    /\ exit_status' = body.arg
                    /\ exit_call' = exit_calls
                    /\ exit_depth' = exit_depth + 1
                    /\ UNCHANGED <<exit_calls, exit_phase>>
                [] body.kind = "exit" /\ exit_depth >= MaxExitDepth ->
                    /\ exit_phase' = "stack overflow"
                    /\ UNCHANGED <<exit_calls, exit_call, exit_status, exit_depth>>
    /\ UNCHANGED <<fatal, exit_body, exit_first, exit_final, exit_registered, notExitVars>>

\* exit, lines 74-75: the loop is over, __call_destructors() and
\* _Exit(status).
ExitExit ==
    /\ exit_phase = "exit"
    /\ exit_call = <<>>
    /\ exit_final' = exit_status
    /\ exit_phase' = "exited"
    /\ UNCHANGED <<fatal, exit_calls, exit_body, exit_call, exit_status, exit_first,
                   exit_depth, exit_invoked, exit_order, exit_registered, notExitVars>>

NextExit == Atexit \/ Exit \/ ExitCallFunc \/ ExitExit

\* A program that has called exit goes on running: the loop and _Exit are
\* steps of one thread.
SpecExit == InitExit /\ [][NextExit]_vars /\ WF_vars(ExitCallFunc \/ ExitExit)

\* The sequence in the opposite order.
C30_Reverse(seq) == [i \in 1..Len(seq) |-> seq[Len(seq) + 1 - i]]

\* C30: exit(status) always reaches _Exit(status), and it calls each function
\* given to atexit at most once, in the opposite order of the calls of atexit,
\* also when a function calls exit or atexit.
C30_ExitReachesExitOnce ==
    /\ [](\A func \in ExitFuncs :
            exit_invoked[func] <= Cardinality({i \in DOMAIN exit_registered :
                                                 exit_registered[i] = func}))
    /\ [](exit_phase = "exited" => exit_order = C30_Reverse(exit_registered))
    /\ \A status \in ExitStatuses :
          (exit_phase = "exit" /\ exit_first = status) ~> (exit_final = status)

\* A function that calls exit is called again by the exit it calls: it has
\* been called as often as the stack has room for, and _Exit is not reached.
C30_CalledAgain ==
    /\ exit_phase = "stack overflow"
    /\ exit_registered = <<1>>
    /\ exit_body[1].kind = "exit"
    /\ exit_invoked[1] = MaxExitDepth
    /\ exit_final = -1

\* No function of the list calls exit.
C30_NoFuncCallsExit ==
    \A i \in DOMAIN exit_calls : exit_body[exit_calls[i]].kind # "exit"

\* What holds of the code: when no function of the list calls exit, _Exit is
\* reached with the status given to exit, and the functions given to atexit
\* before exit have been called once each, the last one first; a function
\* given to atexit by one of them is not called.
C30_WithoutExitInFuncs ==
    /\ []((exit_phase = "exited" /\ C30_NoFuncCallsExit) =>
            /\ exit_order = C30_Reverse(exit_registered)
            /\ exit_final = exit_first)
    /\ (exit_phase = "exit" /\ C30_NoFuncCallsExit) ~> (exit_phase = "exited")

\* Two functions have been called by exit, the last one given to atexit first.
C30_ReverseOrderReached ==
    /\ exit_phase = "exited"
    /\ exit_registered = <<1, 2>>
    /\ exit_order = <<2, 1>>

(***************************************************************************)
(* cci/1-opc types.c: the table of typedefs, structs and unions             *)
(*                                                                          *)
(* As in the table of globals a name is a number and its own hash.  The     *)
(* table of 256 buckets of the source has types_buckets buckets in the      *)
(* model.  A bucket is empty if its name is NoName.  A lookup whose loop    *)
(* has looked at every bucket without leaving goes round again over the     *)
(* same buckets: it does not return, and the program is left looping.       *)
(***************************************************************************)

types_buckets == 4

\* The number of calls of a behaviour.
MaxTypeCalls == 5

NoName == 0 - 1
TAG_TYPEDEF == 0
TAG_STRUCT == 1
TAG_UNION == 2
TypeTags == {TAG_TYPEDEF, TAG_STRUCT, TAG_UNION}
TypeNames == {0, 1, types_buckets}
TypeObjects == {"int", "char"}

\* types_init: every name is NULL.
types_init ==
    [names |-> [i \in 1..types_buckets |-> NoName],
     tags |-> [i \in 1..types_buckets |-> 0],
     objects |-> [i \in 1..types_buckets |-> ""]]

RECURSIVE types_probe(_, _, _, _, _)
\* The loop of types_find_bucket from index on; -1 once every bucket has been
\* looked at, since the loop then repeats.
types_probe(table, name, tag, index, probes) ==
    IF probes = types_buckets THEN -1
    ELSE LET bucket_name == table.names[index + 1]
             bucket_tag == table.tags[index + 1]
         IN  IF bucket_name # NoName /\ tag = bucket_tag /\ name = bucket_name
             THEN index
             ELSE IF bucket_name = NoName THEN index
             ELSE types_probe(table, name, tag, (index + 1) % types_buckets, probes + 1)

\* types_find_bucket: the index of the bucket, -1 if the loop does not end.
types_find_bucket(table, name, tag) ==
    LET hash == fnv1a_cstr(name) + (tag * 31)
    IN  types_probe(table, name, tag, hash % types_buckets, 0)

\* types_add_typedef: [msg, looping, table, returned].
types_add_typedef(table, name, type) ==
    LET index == types_find_bucket(table, name, TAG_TYPEDEF)
    IN  IF index = -1
        THEN [msg |-> "", looping |-> TRUE, table |-> table, returned |-> ""]
        ELSE IF table.names[index + 1] # NoName
        THEN [msg |-> "", looping |-> FALSE, table |-> table,
              returned |-> table.objects[index + 1]]
        ELSE [msg |-> "", looping |-> FALSE,
              table |-> [names |-> [table.names EXCEPT ![index + 1] = name],
                         tags |-> [table.tags EXCEPT ![index + 1] = TAG_TYPEDEF],
                         objects |-> [table.objects EXCEPT ![index + 1] = type]],
              returned |-> type]

\* types_add_record: [msg, looping, table, returned].
types_add_record(table, tag, name, record) ==
    LET index == types_find_bucket(table, name, tag)
    IN  IF index = -1
        THEN [msg |-> "", looping |-> TRUE, table |-> table, returned |-> ""]
        ELSE IF table.names[index + 1] # NoName
        THEN [msg |-> "Internal error: record already exists.", looping |-> FALSE,
              table |-> table, returned |-> ""]
        ELSE [msg |-> "", looping |-> FALSE,
              table |-> [names |-> [table.names EXCEPT ![index + 1] = name],
                         tags |-> [table.tags EXCEPT ![index + 1] = tag],
                         objects |-> [table.objects EXCEPT ![index + 1] = record]],
              returned |-> ""]

\* types_find_object: [msg, looping, table, returned]; "" is NULL.
types_find_object(table, name, tag) ==
    LET index == types_find_bucket(table, name, tag)
    IN  IF index = -1
        THEN [msg |-> "", looping |-> TRUE, table |-> table, returned |-> ""]
        ELSE [msg |-> "", looping |-> FALSE, table |-> table,
              returned |-> IF table.names[index + 1] # NoName
                           THEN table.objects[index + 1] ELSE ""]

InitTypes ==
    /\ fatal = ""
    /\ types_table = types_init
    /\ types_calls = 0
    /\ types_looping = FALSE
    /\ types_returned = ""
    /\ types_key = <<>>
    /\ InitRecordVars
    /\ IdleNumberVars
    /\ IdleStringVars
    /\ IdleConvVars
    /\ IdleCallVars
    /\ IdleDeclVars
    /\ IdleLexerVars
    /\ IdleCondVars
    /\ IdleGenVars
    /\ IdleOpcVars
    /\ IdleSpecifiersVars
    /\ IdleGlobalsVars
    /\ IdleEmitVars
    /\ IdleExitVars
    /\ IdleCmpVars

\* The outcome of a call.
TypesCalled(r, name, tag) ==
    /\ fatal' = r.msg
    /\ types_table' = r.table
    /\ types_looping' = r.looping
    /\ types_returned' = r.returned
    /\ types_key' = <<name, tag>>
    /\ types_calls' = types_calls + 1
    /\ UNCHANGED notTypesVars

TypesAddTypedef ==
    /\ fatal = ""
    /\ ~types_looping
    /\ types_calls < MaxTypeCalls
    /\ \E name \in TypeNames, type \in TypeObjects :
          TypesCalled(types_add_typedef(types_table, name, type), name, TAG_TYPEDEF)

\* types_add_struct and types_add_union.
TypesAddRecord ==
    /\ fatal = ""
    /\ ~types_looping
    /\ types_calls < MaxTypeCalls
    /\ \E name \in TypeNames, tag \in {TAG_STRUCT, TAG_UNION}, record \in TypeObjects :
          TypesCalled(types_add_record(types_table, tag, name, record), name, tag)

\* types_find_typedef, types_find_struct and types_find_union.
TypesFindObject ==
    /\ fatal = ""
    /\ ~types_looping
    /\ types_calls < MaxTypeCalls
    /\ \E name \in TypeNames, tag \in TypeTags :
          TypesCalled(types_find_object(types_table, name, tag), name, tag)

NextTypes == TypesAddTypedef \/ TypesAddRecord \/ TypesFindObject

SpecTypes == InitTypes /\ [][NextTypes]_vars

\* C29: every lookup of the table of types ends, because the table always
\* has an empty bucket.
C29_LookupsEnd ==
    /\ ~types_looping
    /\ \E i \in 1..types_buckets : types_table.names[i] = NoName

\* What holds of the code: a lookup ends if the table has an empty bucket or
\* holds the name with the tag.
C29_EndsIfEmptyOrPresent ==
    \A name \in TypeNames, tag \in TypeTags :
        (\/ \E i \in 1..types_buckets : types_table.names[i] = NoName
         \/ \E i \in 1..types_buckets : types_table.names[i] = name /\ types_table.tags[i] = tag)
            => types_find_bucket(types_table, name, tag) # -1

\* Four types fill the four buckets, and the lookup of a fifth does not
\* return.
C29_FullTableLoops ==
    /\ types_looping
    /\ \A i \in 1..types_buckets : types_table.names[i] # NoName
    /\ ~\E i \in 1..types_buckets :
          types_table.names[i] = types_key[1] /\ types_table.tags[i] = types_key[2]

(***************************************************************************)
(* Comparisons: cci/2-full parse_expr.c and generate_ops.c, cci/1-opc       *)
(* compile.c                                                                *)
(*                                                                          *)
(* The code of a comparison is run on the registers of the virtual machine, *)
(* whose words have 32 bits: a word is a number from -2^31 to 2^31 - 1, and *)
(* an unsigned comparison takes a negative word as larger than any other.   *)
(* The trace holds the result register after each instruction.              *)
(***************************************************************************)

WordMax == 2147483647
WordMin == (0 - WordMax) - 1

\* The operands of the model.
CmpValues == {0, 1, 0 - 1, 2, 65536, WordMax, WordMin}

CmpKinds == {"less", "greater", "less_or_equal", "greater_or_equal", "equal", "not_equal"}

\* cmps: the three-way comparison of two words as signed numbers.
vm_cmps(a, b) == IF a < b THEN 0 - 1 ELSE IF a > b THEN 1 ELSE 0

\* cmpu: the three-way comparison of two words as unsigned numbers.
vm_cmpu(a, b) ==
    IF (a < 0) = (b < 0) THEN vm_cmps(a, b)
    ELSE IF a < 0 THEN 1 ELSE 0 - 1

\* add: the sum modulo 2^32.
vm_add(a, b) ==
    IF b > 0 /\ a > WordMax - b THEN (a - WordMax - 1) + (b - WordMax - 1)
    ELSE IF b < 0 /\ a < WordMin - b THEN (a + WordMax + 1) + (b + WordMax + 1)
    ELSE a + b

\* sub: the difference modulo 2^32.
vm_sub(a, b) ==
    IF b = WordMin THEN vm_add(vm_add(a, WordMax), 1) ELSE vm_add(a, 0 - b)

\* and with a mask of one bit.
vm_and(a, b) == IF b = 1 THEN a % 2 ELSE IF b = 0 THEN 0 ELSE a

\* An instruction of the virtual machine on two operand values.
vm_alu(op, a, b) ==
    CASE op \in {"CMPS", "cmps"} -> vm_cmps(a, b)
      [] op \in {"CMPU", "cmpu"} -> vm_cmpu(a, b)
      [] op \in {"ADD", "add"} -> vm_add(a, b)
      [] op \in {"SUB", "sub"} -> vm_sub(a, b)
      [] op \in {"AND", "and"} -> vm_and(a, b)

\* parse_comparison_conversions: an operand that is a pointer is cast to
\* unsigned int; the operands of the model have one type, which the usual
\* arithmetic conversions keep.
parse_comparison_conversions(type) ==
    IF type_is_indirection(type) THEN gen_type("none", "unsigned_int", 4, 0) ELSE type

\* parse_binary_conversions, lines 979-987: the node of a comparison has the
\* type signed int, and its children are the converted operands.
parse_binary_conversions(kind, left_type, right_type) ==
    gen_node_new(kind, gen_type("none", "signed_int", 4, 0),
                 parse_comparison_conversions(left_type),
                 parse_comparison_conversions(right_type))

generate_ordering(block, node, register_num) ==
    LET r == generate_register_push(register_num).register_num
        type == node.type
        function == IF type_matches_base(type, "signed_long_long") THEN "__llong_cmps"
                    ELSE IF type_matches_base(type, "unsigned_long_long") THEN "__llong_cmpu"
                    ELSE IF type_matches_base(type, "float") THEN "__float_cmp"
                    ELSE IF type_matches_base(type, "double") THEN "__double_cmp"
                    ELSE ""
    IN  IF function # ""
        THEN generate_binary_function(block, node, r, function)
        ELSE block_add(generate_node(generate_node(block, "first_child", r),
                                     "last_child", r + 1),
                       IF type_matches_base(type, "signed_int") THEN "CMPS" ELSE "CMPU",
                       <<r, r, r + 1>>, "")

\* block_add of CMPU with the term, of ADD 1 if add is true, and of AND 1.
generate_flag(block, register_num, term, add) ==
    LET compared == block_add(block, "CMPU", <<register_num, register_num, term>>, "")
        added == IF add
                 THEN block_add(compared, "ADD", <<register_num, register_num, 1>>, "")
                 ELSE compared
    IN  block_add(added, "AND", <<register_num, register_num, 1>>, "")

generate_less(block, node, register_num) ==
    generate_flag(generate_ordering(block, node, register_num), register_num, 0 - 1, TRUE)

\* generate_greater without its ADD.
generate_greater_no_add(block, node, register_num) ==
    generate_flag(generate_ordering(block, node, register_num), register_num, 1, FALSE)

generate_greater(block, node, register_num) ==
    generate_flag(generate_ordering(block, node, register_num), register_num, 1, TRUE)

generate_less_or_equal(block, node, register_num) ==
    generate_flag(generate_ordering(block, node, register_num), register_num, 1, FALSE)

generate_greater_or_equal(block, node, register_num) ==
    generate_flag(generate_ordering(block, node, register_num), register_num, 0 - 1, FALSE)

generate_equality(block, node, register_num) ==
    LET r == generate_register_push(register_num).register_num
        type == node.type
    IN  IF type_is_long_long(type.base)
        THEN generate_binary_function(block, node, r, "__llong_neq")
        ELSE IF type_matches_base(type, "double")
        THEN generate_binary_function(block, node, r, "__double_neq")
        ELSE block_add(generate_node(generate_node(block, "first_child", r),
                                     "last_child", r + 1),
                       "SUB", <<r, r, r + 1>>, "")

generate_equal(block, node, register_num) ==
    generate_flag(generate_equality(block, node, register_num), register_num, 0, TRUE)

generate_not_equal(block, node, register_num) ==
    generate_flag(generate_equality(block, node, register_num), register_num, 0, FALSE)

\* The value of an operand of an instruction of the block: a register or an
\* immediate.
block_operand(registers, operand) ==
    IF operand >= R0 THEN registers[operand] ELSE operand

RECURSIVE block_run(_, _, _, _, _, _)
\* The virtual machine on the block from instruction i on: the result
\* register after each instruction.  generate_node leaves the value of the
\* child in its register.
block_run(block, i, registers, result, left, right) ==
    IF i > Len(block) THEN <<>>
    ELSE LET ins == block[i]
             after ==
                 IF ins.op = "generate_node"
                 THEN [registers EXCEPT ![ins.args[1]] =
                          IF ins.label = "first_child" THEN left ELSE right]
                 ELSE IF ins.op \in {"CMPS", "CMPU", "ADD", "SUB", "AND"}
                 THEN [registers EXCEPT ![ins.args[1]] =
                          vm_alu(ins.op, block_operand(registers, ins.args[2]),
                                 block_operand(registers, ins.args[3]))]
                 ELSE registers
         IN  <<after[result]>> \o block_run(block, i + 1, after, result, left, right)

\* type_is_signed of the opC stage.
type_is_signed(type) ==
    type.indirections = 0 /\ type.base \in {"signed_char", "signed_short", "signed_int"}

compile_cmp_to_true(emitted) ==
    LET add == emit_newline(emit_term(emit_term(emit_term(emit_term(emitted,
                   "add"), "r0"), "r0"), "1"))
    IN  emit_newline(emit_term(emit_term(emit_term(emit_term(add,
                   "and"), "r0"), "r0"), "1"))

compile_cmp_to_false(emitted) ==
    emit_newline(emit_term(emit_term(emit_term(emit_term(emitted,
        "and"), "r0"), "r0"), "1"))

compile_compare_signed(emitted) ==
    emit_newline(emit_term(emit_term(emit_term(emit_term(emitted,
        "cmps"), "r0"), "r1"), "r0"))

compile_compare_unsigned(emitted) ==
    emit_newline(emit_term(emit_term(emit_term(emit_term(emitted,
        "cmpu"), "r0"), "r1"), "r0"))

compile_compare_term(emitted, term) ==
    emit_newline(emit_term(emit_term(emit_term(emit_term(emitted,
        "cmpu"), "r0"), "r0"), term))

\* compile_comparison: [msg, emitted, type]; the operands of the model have
\* compatible types.
compile_comparison(emitted, op, left, right) ==
    LET is_signed == type_is_signed(left) /\ type_is_signed(right)
        ret == OpcSignedInt
        compared == IF is_signed THEN compile_compare_signed(emitted)
                    ELSE compile_compare_unsigned(emitted)
        Done(e) == [msg |-> "", emitted |-> e, type |-> ret]
    IN  IF op = "==" THEN Done(compile_cmp_to_true(compile_compare_unsigned(emitted)))
        ELSE IF op = "!=" THEN Done(compile_cmp_to_false(compile_compare_unsigned(emitted)))
        ELSE IF op = "<" THEN Done(compile_cmp_to_true(compile_compare_term(compared, "-1")))
        ELSE IF op = ">" THEN Done(compile_cmp_to_true(compile_compare_term(compared, "1")))
        ELSE IF op = "<=" THEN Done(compile_cmp_to_false(compile_compare_term(compared, "1")))
        ELSE IF op = ">=" THEN Done(compile_cmp_to_false(compile_compare_term(compared, "-1")))
        ELSE [msg |-> "Internal error: Unhandled comparison operator",
              emitted |-> compared, type |-> ret]

\* The value of a term of an instruction: a register or a number.
term_operand(registers, text) ==
    CASE text = "r0" -> registers.r0
      [] text = "r1" -> registers.r1
      [] text = "-1" -> 0 - 1
      [] text = "0" -> 0
      [] text = "1" -> 1

RECURSIVE emitted_run(_, _, _)
\* The virtual machine on the lines emitted from term i on, each of them an
\* opcode, a register and two operands: r0 after each line.
emitted_run(emitted, i, registers) ==
    IF i + 4 > Len(emitted) THEN <<>>
    ELSE LET value == vm_alu(emitted[i].text,
                             term_operand(registers, emitted[i + 2].text),
                             term_operand(registers, emitted[i + 3].text))
             after == IF emitted[i + 1].text = "r0" THEN [registers EXCEPT !.r0 = value]
                      ELSE [registers EXCEPT !.r1 = value]
         IN  <<after.r0>> \o emitted_run(emitted, i + 5, after)

\* The operator of the opC stage for the kind of node.
CmpOp(kind) ==
    CASE kind = "less" -> "<"
      [] kind = "greater" -> ">"
      [] kind = "less_or_equal" -> "<="
      [] kind = "greater_or_equal" -> ">="
      [] kind = "equal" -> "=="
      [] kind = "not_equal" -> "!="

\* The types of the operands in the full stage, before the conversions of
\* the comparison, and in the opC stage.
CmpFullTypes == GenArithmeticTypes \cup {GenPointer(4)}
CmpOpcTypes == {OpcSignedInt, opc_type("unsigned_int", 0, 4), opc_type("signed_int", 1, 4)}

InitCmp ==
    /\ fatal = ""
    /\ cmp_kind \in CmpKinds
    /\ \/ /\ cmp_stage = "full"
          /\ cmp_type \in CmpFullTypes
          /\ cmp_register \in R0..(R0 + 1)
       \/ /\ cmp_stage = "opc"
          /\ cmp_type \in CmpOpcTypes
          /\ cmp_register = R0
    /\ cmp_left \in CmpValues
    /\ cmp_right \in CmpValues
    /\ cmp_node = NoNode
    /\ cmp_block = <<>>
    /\ cmp_trace = <<>>
    /\ cmp_done = FALSE
    /\ InitRecordVars
    /\ IdleNumberVars
    /\ IdleStringVars
    /\ IdleConvVars
    /\ IdleCallVars
    /\ IdleDeclVars
    /\ IdleLexerVars
    /\ IdleCondVars
    /\ IdleGenVars
    /\ IdleOpcVars
    /\ IdleSpecifiersVars
    /\ IdleGlobalsVars
    /\ IdleEmitVars
    /\ IdleExitVars
    /\ IdleTypesVars

\* The full stage: the comparison is parsed, generate_less, generate_greater,
\* generate_less_or_equal, generate_greater_or_equal, generate_equal or
\* generate_not_equal generates the node, and the virtual machine runs the
\* block.
GenerateComparison ==
    /\ cmp_stage = "full"
    /\ ~cmp_done
    /\ LET node == parse_binary_conversions(cmp_kind, cmp_type, cmp_type)
           block ==
               CASE cmp_kind = "less" -> generate_less(<<>>, node, cmp_register)
                 [] cmp_kind = "greater" -> generate_greater(<<>>, node, cmp_register)
                 [] cmp_kind = "less_or_equal" ->
                        generate_less_or_equal(<<>>, node, cmp_register)
                 [] cmp_kind = "greater_or_equal" ->
                        generate_greater_or_equal(<<>>, node, cmp_register)
                 [] cmp_kind = "equal" -> generate_equal(<<>>, node, cmp_register)
                 [] cmp_kind = "not_equal" -> generate_not_equal(<<>>, node, cmp_register)
       IN  /\ cmp_node' = node
           /\ cmp_block' = block
           /\ cmp_trace' = block_run(block, 1, [r \in R0..(R0 + 3) |-> 0], cmp_register,
                                     cmp_left, cmp_right)
    /\ cmp_done' = TRUE
    /\ UNCHANGED <<fatal, cmp_stage, cmp_kind, cmp_type, cmp_register, cmp_left, cmp_right,
                   notCmpVars>>

\* The opC stage: compile_comparison with the left operand in r1 and the
\* right one in r0, and the virtual machine on what it emitted.
CompileComparison ==
    /\ cmp_stage = "opc"
    /\ ~cmp_done
    /\ LET r == compile_comparison(<<>>, CmpOp(cmp_kind), cmp_type, cmp_type)
       IN  /\ fatal' = r.msg
           /\ cmp_block' = r.emitted
           /\ cmp_trace' = emitted_run(r.emitted, 1, [r0 |-> cmp_right, r1 |-> cmp_left])
    /\ cmp_done' = TRUE
    /\ UNCHANGED <<cmp_stage, cmp_kind, cmp_type, cmp_register, cmp_left, cmp_right,
                   cmp_node, notCmpVars>>

NextCmp == GenerateComparison \/ CompileComparison

SpecCmp == InitCmp /\ [][NextCmp]_vars

\* The number of instructions of the lowering that follow the code of the
\* three-way comparison.
C24_Lowering ==
    IF cmp_stage = "full"
    THEN (IF cmp_kind \in {"less", "greater", "equal"} THEN 3 ELSE 2)
    ELSE (IF cmp_kind \in {"less", "greater"} THEN 3
          ELSE IF cmp_kind = "equal" THEN 2
          ELSE IF cmp_kind = "not_equal" THEN 1
          ELSE 2)

\* The outcome of the three-way comparison: the result register before the
\* lowering.
C24_Outcome == cmp_trace[Len(cmp_trace) - C24_Lowering]

\* The result register at the end.
C24_Result == cmp_trace[Len(cmp_trace)]

\* A comparison of two words has been generated or compiled, and run.
C24_Case ==
    /\ cmp_done
    /\ fatal = ""
    /\ cmp_trace # <<>>

\* C24: for each outcome -1, 0 or 1 of the three-way comparison the lowering
\* of <, >, <= and >= leaves 1 in the result register if the relation holds
\* and 0 if not, and for each pair of words the lowering of == and != leaves
\* 1 or 0 according to whether the words are equal.
C24_FlagIsRelation ==
    C24_Case =>
        LET c == C24_Outcome
            flag == C24_Result
            Flag(holds) == flag = (IF holds THEN 1 ELSE 0)
        IN  CASE cmp_kind = "less" -> c \in {0 - 1, 0, 1} /\ Flag(c = 0 - 1)
              [] cmp_kind = "greater" -> c \in {0 - 1, 0, 1} /\ Flag(c = 1)
              [] cmp_kind = "less_or_equal" -> c \in {0 - 1, 0, 1} /\ Flag(c # 1)
              [] cmp_kind = "greater_or_equal" -> c \in {0 - 1, 0, 1} /\ Flag(c # 0 - 1)
              [] cmp_kind = "equal" -> Flag(cmp_left = cmp_right)
              [] cmp_kind = "not_equal" -> Flag(cmp_left # cmp_right)

\* The full stage has generated 2147483647 > -2147483648 in the register
\* above R0: the outcome of the comparison is 1 and the flag is 1.
C24_Witness ==
    /\ C24_Case
    /\ cmp_stage = "full"
    /\ cmp_kind = "greater"
    /\ cmp_register = R1
    /\ cmp_left = WordMax
    /\ cmp_right = WordMin
    /\ C24_Outcome = 1
    /\ C24_Result = 1
    /\ Len(cmp_block) = 6

\* The opC stage has compiled -2147483648 == -2147483648 and 0 != 1.
C24_OpcEqual ==
    /\ C24_Case
    /\ cmp_stage = "opc"
    /\ cmp_kind = "equal"
    /\ cmp_left = WordMin
    /\ cmp_right = WordMin
    /\ C24_Result = 1

\* The operands of the comparison, as the parser has converted them.
C27_Operands == cmp_node.first_child

\* The compare of the block: the opcode of the instruction on the two operand
\* registers, or the helper of the call.
C27_Compare ==
    LET i == CHOOSE i \in DOMAIN cmp_block : cmp_block[i].op \in {"CMPS", "CMPU", "CALL"}
    IN  IF cmp_block[i].op = "CALL" THEN cmp_block[i].label ELSE cmp_block[i].op

\* An ordering comparison has been generated in the full stage.
C27_Case ==
    /\ cmp_done
    /\ cmp_stage = "full"
    /\ cmp_kind \in {"less", "greater", "less_or_equal", "greater_or_equal"}

\* C27: in the full stage an ordering comparison takes its compare from the
\* type of its operands: CMPS for signed int, CMPU for unsigned int and for
\* pointers, and the helper __llong_cmps, __llong_cmpu, __float_cmp or
\* __double_cmp for long long, float and double.
C27_CompareOfOperandType ==
    C27_Case =>
        C27_Compare =
            CASE C27_Operands.base = "signed_int" -> "CMPS"
              [] C27_Operands.base = "unsigned_int" -> "CMPU"
              [] C27_Operands.base = "signed_long_long" -> "__llong_cmps"
              [] C27_Operands.base = "unsigned_long_long" -> "__llong_cmpu"
              [] C27_Operands.base = "float" -> "__float_cmp"
              [] C27_Operands.base = "double" -> "__double_cmp"

\* What the code does: the compare is taken from the type of the node, which
\* is signed int for every comparison, so it is CMPS for every operand type.
C27_AlwaysCmps ==
    C27_Case => C27_Compare = "CMPS"

\* unsigned a = 4294967295, b = 1: a < b is compared with CMPS and gives 1.
C27_UnsignedLessWrong ==
    /\ C27_Case
    /\ cmp_kind = "less"
    /\ C27_Operands.base = "unsigned_int"
    /\ cmp_left = 0 - 1
    /\ cmp_right = 1
    /\ C27_Compare = "CMPS"
    /\ C24_Result = 1

\* In the opC stage the compare is cmps for two signed operands and cmpu for
\* unsigned operands and pointers.
C27_OpcCompareOfOperandType ==
    (cmp_done /\ cmp_stage = "opc" /\ cmp_kind \notin {"equal", "not_equal"}) =>
        cmp_block[1].text = (IF cmp_type = OpcSignedInt THEN "cmps" ELSE "cmpu")

====
